---- MODULE Spec2Model ----
(***************************************************************************)
(* ZigSight: the device state store (coordinator.py), its MQTT lifecycle   *)
(* and the Zigbee channel recommender (recommender.py).                    *)
(*                                                                         *)
(* Conventions of the translation                                          *)
(*   - Python None is the empty sequence <<>>, a present value v is <<v>>. *)
(*   - A Python dict is a function whose DOMAIN is the set of its keys.    *)
(*   - datetime values are integers (seconds); the ISO-8601 text of a      *)
(*     datetime is the record [kind |-> "iso", t |-> seconds].             *)
(*   - A topic is the sequence of its characters, where every maximal      *)
(*     slash-free run of characters is one symbol and "/" is a symbol.     *)
(***************************************************************************)
EXTENDS Integers, Sequences, FiniteSets, TLC

(***************************************************************************)
(* Bounds of the model                                                     *)
(***************************************************************************)
MaxTime == 602
MaxUpdates == 3
MaxFill == 2
MaxOver == 2
MaxShutdowns == 2
MaxLifecycleUpdates == 2
MaxAps == 2

(***************************************************************************)
(* Program constants                                                       *)
(***************************************************************************)
HISTORY_LIMIT == 1000
RECONNECT_GAP_SECONDS == 300
DEFAULT_RECONNECT_RATE_WINDOW_HOURS == 24
DEFAULT_RECONNECT_RATE_THRESHOLD == 5
DEFAULT_BATTERY_DRAIN_THRESHOLD == 10
DEFAULT_MIN_BATTERY_FOR_TREND == 20
BATTERY_TREND_WINDOW_HOURS == 24
SECONDS_PER_HOUR == 3600
EVENT_DEVICE_UPDATE == "zigsight_device_update"
DEFAULT_MQTT_TOPIC_PREFIX == "zigbee2mqtt"

(***************************************************************************)
(* Python values                                                           *)
(***************************************************************************)
None == <<>>
Some(v) == <<v>>
EmptyDict == <<>>

\* dict.get(key, default); the values of a dict are None or Some(v)
Get(d, key, default) == IF key \in DOMAIN d THEN d[key] ELSE default

\* d[key] = value on a dict (adds the key when it is missing)
DictSet(d, key, value) == (key :> value) @@ d

\* datetime.isoformat()
isoformat(t) == [kind |-> "iso", t |-> t]

\* datetime.fromisoformat(): ValueError on text that is not ISO-8601
fromisoformat(s) ==
  IF s.kind = "iso" THEN [ok |-> TRUE, t |-> s.t] ELSE [ok |-> FALSE]

\* list[-n:]
LastN(s, n) == IF Len(s) <= n THEN s ELSE SubSeq(s, Len(s) - n + 1, Len(s))

Min(a, b) == IF a <= b THEN a ELSE b
Max(a, b) == IF a >= b THEN a ELSE b

(***************************************************************************)
(* Inbound messages                                                        *)
(***************************************************************************)
\* str.split("/") on a topic
RECURSIVE SplitFrom(_, _, _)
SplitFrom(topic, i, cur) ==
  IF i > Len(topic) THEN <<cur>>
  ELSE IF topic[i] = "/" THEN <<cur>> \o SplitFrom(topic, i + 1, <<>>)
  ELSE SplitFrom(topic, i + 1, Append(cur, topic[i]))

Split(topic) == SplitFrom(topic, 1, <<>>)

\* the text of one topic segment
SegmentText(seg) == IF seg = <<>> THEN "" ELSE seg[1]

\* telemetry dicts a device publishes
DevicePayloads ==
  { [linkquality |-> Some(100)],
    [link_quality |-> Some(200), battery_percent |-> Some(95)],
    [linkquality |-> Some(150), battery |-> None, friendly_name |-> Some("Lamp")] }

\* JSON documents: an object carries its dict, the others only their type
JsonObject(d) == [json |-> "object", value |-> d]
JsonOther == { [json |-> "array"], [json |-> "null"] }
JsonInvalid == [json |-> "invalid"]

\* json.loads(): ValueError on invalid text, else the Python value
JsonLoads(doc) ==
  IF doc.json = "invalid" THEN [ok |-> FALSE]
  ELSE IF doc.json = "object"
       THEN [ok |-> TRUE, value |-> [type |-> "dict", value |-> doc.value]]
       ELSE [ok |-> TRUE, value |-> [type |-> doc.json]]

\* msg.payload: bytes or str hold JSON text, anything else is a Python value
Encodings == {"bytes", "str"}

DeviceDocs == { JsonObject(d) : d \in DevicePayloads }
MalformedDocs == JsonOther \cup {JsonInvalid}

\* device ids the accessors are asked about
QueryIds == {"dev1", "dev2", "bridge", "unknown"}

VARIABLES
  now,            \* datetime.now()
  devices,        \* ZigSightCoordinator._devices
  device_history, \* ZigSightCoordinator._device_history
  update_count,   \* per device id, completed _process_device_update calls
  appended,       \* per device id, every history entry ever appended
  fired,          \* number of hass.bus.async_fire calls so far
  notified,       \* number of async_update_listeners calls so far
  effects,        \* what the last handler did, in program order
  mqtt_prefix,      \* ZigSightCoordinator._mqtt_prefix, as topic symbols
  use_direct_mqtt,  \* ZigSightCoordinator._use_direct_mqtt
  unsub_mqtt,       \* ZigSightCoordinator._unsub_mqtt
  mqtt_callbacks,   \* ZigSightCoordinator._mqtt_callbacks
  mqtt_client_task, \* ZigSightCoordinator._mqtt_client_task
  task_state,       \* per task created, "running", "cancelled" or "done"
  unsub_calls,      \* per unsubscribe handle handed out, times it was invoked
  lifecycle,        \* the last lifecycle call that completed
  shutdowns,        \* number of async_shutdown calls so far
  wifi_aps,         \* the argument of recommend_zigbee_channel
  recommendation,   \* None, or what recommend_zigbee_channel returned
  topology_devices, \* the argument of build_topology, as its items() in order
  topology,         \* None, or the outcome of build_topology
  analytics_call,   \* the DeviceAnalytics method to call and its arguments
  analytics_result, \* None, or what the method returned
  start_pc,         \* where the coroutine async_start is suspended
  first_subscribed, \* None, or the topics the client task subscribed to on
                    \* its first broker connection
  last_recommendation,    \* hass.data[DOMAIN].get("last_recommendation")
  recommendation_history, \* hass.data[DOMAIN].get("recommendation_history")
  posted,           \* the result of every POST that stored one, in order
  service_called,   \* the recommend_channel service has stored a result
  view_response     \* the status code of the last POST response, 0 before

storeVars == <<now, devices, device_history, update_count, appended,
               fired, notified, effects>>

lifeVars == <<mqtt_prefix, use_direct_mqtt, unsub_mqtt, mqtt_callbacks, mqtt_client_task,
              task_state, unsub_calls, lifecycle, shutdowns>>

recVars == <<wifi_aps, recommendation>>

topoVars == <<topology_devices, topology>>

\* the arguments and results of the pure functions
analyticsVars == <<analytics_call, analytics_result>>

\* the progress of async_start and of the client task it creates
startVars == <<start_pc, first_subscribed>>

\* what the recommendation view and the service keep in hass.data
viewVars == <<last_recommendation, recommendation_history, posted, service_called,
              view_response>>

callVars == <<recVars, topoVars, analyticsVars, startVars, viewVars>>

auxVars == <<lifeVars, callVars>>

vars == <<storeVars, lifeVars, callVars>>

(***************************************************************************)
(* Device state store: _process_device_update                              *)
(***************************************************************************)
\* the metrics dict built from the payload
ExtractMetrics(data, t) ==
  [ link_quality |-> Get(data, "linkquality", Get(data, "link_quality", None)),
    battery      |-> Get(data, "battery", Get(data, "battery_percent", None)),
    voltage      |-> Get(data, "voltage", None),
    last_seen    |-> isoformat(t),
    last_message |-> data ]

\* the entry created for an unseen device id
NewDeviceEntry(device_id, data, t) ==
  [ device_id       |-> device_id,
    friendly_name   |-> Get(data, "friendly_name", Some(device_id)),
    first_seen      |-> isoformat(t),
    reconnect_count |-> 0,
    last_reconnect  |-> None ]

\* device.get("metrics", {}).get("last_seen")
PreviousLastSeen(device) ==
  IF "metrics" \in DOMAIN device /\ "last_seen" \in DOMAIN device.metrics
  THEN Some(device.metrics.last_seen)
  ELSE None

\* variant: the comparison is time_diff >= 300
IsReconnectInclusive(last_seen_str, t) ==
  /\ last_seen_str # None
  /\ last_seen_str[1].kind # "empty"
  /\ fromisoformat(last_seen_str[1]).ok
  /\ t - fromisoformat(last_seen_str[1]).t >= RECONNECT_GAP_SECONDS

\* "if last_seen_str:" then "time_diff > 300" on the parsed text
IsReconnect(last_seen_str, t) ==
  /\ last_seen_str # None
  /\ last_seen_str[1].kind # "empty"
  /\ fromisoformat(last_seen_str[1]).ok
  /\ t - fromisoformat(last_seen_str[1]).t > RECONNECT_GAP_SECONDS

\* variant: the first sighting of a device counts as a reconnect too
DetectReconnectOnFirstSight(device, t) ==
  IF PreviousLastSeen(device) = None \/ IsReconnect(PreviousLastSeen(device), t)
  THEN [device EXCEPT !.reconnect_count = device.reconnect_count + 1,
                      !.last_reconnect = Some(isoformat(t))]
  ELSE device

\* the reconnect bookkeeping of the device entry
DetectReconnect(device, t) ==
  IF IsReconnect(PreviousLastSeen(device), t)
  THEN [device EXCEPT !.reconnect_count = device.reconnect_count + 1,
                      !.last_reconnect = Some(isoformat(t))]
  ELSE device

\* variant: last_update is written only when the record has none
StoreMetricsKeepsLastUpdate(device, device_id, data, metrics, t) ==
  LET d1 == DictSet(device, "metrics", metrics)
      d2 == IF "last_update" \in DOMAIN device THEN d1
            ELSE DictSet(d1, "last_update", isoformat(t))
  IN  DictSet(d2, "friendly_name",
              Get(data, "friendly_name", Get(device, "friendly_name", Some(device_id))))

\* device["metrics"], device["last_update"], device["friendly_name"]
StoreMetrics(device, device_id, data, metrics, t) ==
  LET d1 == DictSet(device, "metrics", metrics)
      d2 == DictSet(d1, "last_update", isoformat(t))
  IN  DictSet(d2, "friendly_name",
              Get(data, "friendly_name", Get(device, "friendly_name", Some(device_id))))

\* variant: the slice keeps the oldest entries, list[:1000]
TruncateHistoryKeepsOldest(entries) ==
  IF Len(entries) > HISTORY_LIMIT THEN SubSeq(entries, 1, HISTORY_LIMIT) ELSE entries

\* "keep only last 1000 entries per device"
TruncateHistory(entries) ==
  IF Len(entries) > HISTORY_LIMIT THEN LastN(entries, HISTORY_LIMIT) ELSE entries

\* variant: the devices share one history list, so the entry is appended to
\* the list of every device
RecordHistoryShared(hist, device_id, metrics, t) ==
  LET entry == [timestamp |-> isoformat(t), metrics |-> metrics]
      grown == [id \in DOMAIN hist |-> TruncateHistory(Append(hist[id], entry))]
  IN  IF device_id \in DOMAIN hist THEN grown
      ELSE DictSet(grown, device_id, <<entry>>)

\* append the entry to the device's list (created when missing), then truncate
RecordHistory(hist, device_id, metrics, t) ==
  LET old == IF device_id \in DOMAIN hist THEN hist[device_id] ELSE <<>>
      entry == [timestamp |-> isoformat(t), metrics |-> metrics]
  IN  DictSet(hist, device_id, TruncateHistory(Append(old, entry)))

\* hass.bus.async_fire(EVENT_DEVICE_UPDATE, {...}); "seen" is what the store
\* holds for the device at the moment of the call
FireDeviceUpdate(device_id, metrics, devs, hist) ==
  << [ kind       |-> "fire",
       event_type |-> EVENT_DEVICE_UPDATE,
       event_data |-> [device_id |-> device_id, metrics |-> metrics],
       seen_metrics |-> IF device_id \in DOMAIN devs /\ "metrics" \in DOMAIN devs[device_id]
                        THEN Some(devs[device_id].metrics) ELSE None,
       seen_history_len |-> IF device_id \in DOMAIN hist THEN Len(hist[device_id]) ELSE 0,
       seen_history_last |-> IF device_id \in DOMAIN hist /\ hist[device_id] # <<>>
                             THEN Some(hist[device_id][Len(hist[device_id])]) ELSE None ] >>

\* variant: the device entry is created before the payload is read, so a
\* payload without .get leaves a bare entry behind
ProcessDeviceUpdateEntryFirst(devs, hist, device_id, value, t) ==
  LET bare == [device_id |-> device_id, first_seen |-> isoformat(t),
               reconnect_count |-> 0, last_reconnect |-> None]
      devs0 == IF device_id \in DOMAIN devs THEN devs ELSE DictSet(devs, device_id, bare)
  IN  IF value.type # "dict"
      THEN [raised |-> TRUE, devices |-> devs0, history |-> hist, steps |-> <<>>]
      ELSE
        LET data == value.value
            metrics == ExtractMetrics(data, t)
            device == StoreMetrics(DetectReconnect(devs0[device_id], t),
                                   device_id, data, metrics, t)
            devs2 == DictSet(devs0, device_id, device)
            hist2 == RecordHistory(hist, device_id, metrics, t)
        IN  [raised |-> FALSE, devices |-> devs2, history |-> hist2,
             steps |-> FireDeviceUpdate(device_id, metrics, devs2, hist2)]

\* variant: the event is fired before the record and the history are written
ProcessDeviceUpdateFiresFirst(devs, hist, device_id, value, t) ==
  IF value.type # "dict"
  THEN [raised |-> TRUE, devices |-> devs, history |-> hist, steps |-> <<>>]
  ELSE
    LET data == value.value
        metrics == ExtractMetrics(data, t)
        devs1 == IF device_id \in DOMAIN devs THEN devs
                 ELSE DictSet(devs, device_id, NewDeviceEntry(device_id, data, t))
        device == StoreMetrics(DetectReconnect(devs1[device_id], t),
                               device_id, data, metrics, t)
        devs2 == DictSet(devs1, device_id, device)
        hist2 == RecordHistory(hist, device_id, metrics, t)
    IN  [raised |-> FALSE, devices |-> devs2, history |-> hist2,
         steps |-> FireDeviceUpdate(device_id, metrics, devs1, hist)]

\* _process_device_update(device_id, data, topic) at time t.  "value" is the
\* Python value passed as data; anything but a dict has no .get and raises
\* before the store is touched.
ProcessDeviceUpdate(devs, hist, device_id, value, t) ==
  IF value.type # "dict"
  THEN [raised |-> TRUE, devices |-> devs, history |-> hist, steps |-> <<>>]
  ELSE
    LET data == value.value
        metrics == ExtractMetrics(data, t)
        devs1 == IF device_id \in DOMAIN devs THEN devs
                 ELSE DictSet(devs, device_id, NewDeviceEntry(device_id, data, t))
        device == StoreMetrics(DetectReconnect(devs1[device_id], t),
                               device_id, data, metrics, t)
        devs2 == DictSet(devs1, device_id, device)
        hist2 == RecordHistory(hist, device_id, metrics, t)
    IN  [raised |-> FALSE, devices |-> devs2, history |-> hist2,
         steps |-> FireDeviceUpdate(device_id, metrics, devs2, hist2)]

(***************************************************************************)
(* Analytics engine (DeviceAnalytics).  Fractions are kept exact: a        *)
(* reconnect rate is the fraction num/den, a health score is given in      *)
(* tenths and a battery trend in hundredths (the digits round() keeps).    *)
(***************************************************************************)
\* round(n / d) for d > 0, ties to the even neighbour
RoundHalfEven(n, d) ==
  LET q == n \div d
      r == n % d
  IN  IF 2 * r < d THEN q
      ELSE IF 2 * r > d THEN q + 1
      ELSE IF q % 2 = 0 THEN q ELSE q + 1

\* entry.get("timestamp"): None when the key is missing
EntryTimestamp(entry) ==
  IF "timestamp" \in DOMAIN entry THEN Some(entry.timestamp) ELSE None

\* the entry passes "if not timestamp_str: continue", fromisoformat() and
\* "if timestamp < window_start: continue"
InWindow(entry, window_start) ==
  /\ EntryTimestamp(entry) # None
  /\ fromisoformat(EntryTimestamp(entry)[1]).ok
  /\ fromisoformat(EntryTimestamp(entry)[1]).t >= window_start

\* the instants of the entries that pass, in list order
RECURSIVE WindowTimes(_, _)
WindowTimes(entries, window_start) ==
  IF entries = <<>> THEN <<>>
  ELSE (IF InWindow(entries[1], window_start)
        THEN <<fromisoformat(entries[1].timestamp).t>> ELSE <<>>)
       \o WindowTimes(Tail(entries), window_start)

\* insert x into the ascending sequence s after the elements with key <= key(x)
RECURSIVE InsertSorted(_, _, _)
InsertSorted(s, x, k) ==
  IF s = <<>> THEN <<x>>
  ELSE IF s[1][k] <= x[k] THEN <<s[1]>> \o InsertSorted(Tail(s), x, k)
  ELSE <<x>> \o s

\* sorted(..., key=...) on tuples whose k-th component is the key (stable)
RECURSIVE SortedBy(_, _)
SortedBy(s, k) ==
  IF s = <<>> THEN <<>>
  ELSE InsertSorted(SortedBy(SubSeq(s, 1, Len(s) - 1), k), s[Len(s)], k)

\* the tuples <<t>> of a sequence of instants
Singletons(ts) == [i \in 1..Len(ts) |-> <<ts[i]>>]

RECURSIVE CountGapsInclusive(_)
CountGapsInclusive(ts) ==
  IF Len(ts) < 2 THEN 0
  ELSE (IF ts[2][1] - ts[1][1] >= RECONNECT_GAP_SECONDS THEN 1 ELSE 0)
       + CountGapsInclusive(Tail(ts))

\* adjacent pairs of the ascending instants that are more than 300 s apart
RECURSIVE CountGaps(_)
CountGaps(ts) ==
  IF Len(ts) < 2 THEN 0
  ELSE (IF ts[2][1] - ts[1][1] > RECONNECT_GAP_SECONDS THEN 1 ELSE 0)
       + CountGaps(Tail(ts))

\* a timestamp that is JSON null: entry.get("timestamp") is None
NullTimestamp == [kind |-> "null"]

\* sorted(device_history, key=lambda x: x.get("timestamp", "")) compares the
\* keys of two or more entries: TypeError as soon as one key is None
SortRaises(history) ==
  /\ Len(history) >= 2
  /\ \E i \in 1..Len(history) : EntryTimestamp(history[i]) = Some(NullTimestamp)

\* variant: the entries are walked in list order, without sorted()
compute_reconnect_rateUnsorted(history, window_hours, t) ==
  IF Len(history) < 2 THEN [raised |-> FALSE, num |-> 0, den |-> 1]
  ELSE
    LET window_start == t - window_hours * SECONDS_PER_HOUR
        times == Singletons(WindowTimes(history, window_start))
    IN  IF window_hours > 0
        THEN [raised |-> FALSE, num |-> CountGaps(times), den |-> window_hours]
        ELSE [raised |-> FALSE, num |-> 0, den |-> 1]

\* compute_reconnect_rate(history, window_hours) at time t: the fraction
\* num/den, or the TypeError that escapes from sorted()
compute_reconnect_rate(history, window_hours, t) ==
  IF Len(history) < 2 THEN [raised |-> FALSE, num |-> 0, den |-> 1]
  ELSE IF SortRaises(history) THEN [raised |-> TRUE]
  ELSE
    LET window_start == t - window_hours * SECONDS_PER_HOUR
        times == SortedBy(Singletons(WindowTimes(history, window_start)), 1)
    IN  IF window_hours > 0
        THEN [raised |-> FALSE, num |-> CountGaps(times), den |-> window_hours]
        ELSE [raised |-> FALSE, num |-> 0, den |-> 1]

\* metrics.get("battery") or metrics.get("battery_percent")
BatteryReading(entry) ==
  LET metrics == IF "metrics" \in DOMAIN entry THEN entry.metrics ELSE EmptyDict
      battery == Get(metrics, "battery", None)
  IN  IF battery # None /\ battery # Some(0) THEN battery
      ELSE Get(metrics, "battery_percent", None)

\* "if battery_val >= self.min_battery_for_trend"
QualifiesAlways(battery_val, min_battery) == TRUE
QualifiesForTrend(battery_val, min_battery) == battery_val >= min_battery

\* the readings <<battery, instant>> kept for the trend, in list order
RECURSIVE BatteryReadings(_, _, _)
BatteryReadings(entries, window_start, min_battery) ==
  IF entries = <<>> THEN <<>>
  ELSE (IF /\ InWindow(entries[1], window_start)
           /\ BatteryReading(entries[1]) # None
           /\ QualifiesForTrend(BatteryReading(entries[1])[1], min_battery)
        THEN << <<BatteryReading(entries[1])[1],
                  fromisoformat(entries[1].timestamp).t>> >>
        ELSE <<>>)
       \o BatteryReadings(Tail(entries), window_start, min_battery)

RECURSIVE SumSeq(_)
SumSeq(s) == IF s = <<>> THEN 0 ELSE s[1] + SumSeq(Tail(s))

RECURSIVE GCD(_, _)
GCD(a, b) == IF b = 0 THEN a ELSE GCD(b, a % b)

RECURSIVE GCDSeq(_, _)
GCDSeq(s, g) == IF s = <<>> THEN g ELSE GCDSeq(Tail(s), GCD(g, s[1]))

\* the sums of the regression over the qualifying readings, sorted by
\* instant.  The elapsed times are counted in units of `unit` seconds, the
\* largest divisor of an hour that divides them all; an hour is `per_hour`
\* units, so sum_t is sum_t / per_hour hours and sum_t2 is
\* sum_t2 / per_hour^2 squared hours.
BatteryTrendSums(history, window_hours, t) ==
  LET window_start == t - window_hours * SECONDS_PER_HOUR
      readings == SortedBy(BatteryReadings(history, window_start,
                                           DEFAULT_MIN_BATTERY_FOR_TREND), 2)
      n == Len(readings)
      secs == [i \in 1..n |-> readings[i][2] - readings[1][2]]
      unit == GCDSeq(secs, SECONDS_PER_HOUR)
      elapsed == [i \in 1..n |-> secs[i] \div unit]
  IN  [ n |-> n,
        per_hour |-> SECONDS_PER_HOUR \div unit,
        sum_t |-> SumSeq(elapsed),
        sum_b |-> SumSeq([i \in 1..n |-> readings[i][1]]),
        sum_tb |-> SumSeq([i \in 1..n |-> elapsed[i] * readings[i][1]]),
        sum_t2 |-> SumSeq([i \in 1..n |-> elapsed[i] * elapsed[i]]) ]

\* the slope and its divisor, both times per_hour
SlopeNumeratorReversed(sums) == sums.sum_t * sums.sum_b - sums.n * sums.sum_tb
SlopeNumerator(sums) == sums.n * sums.sum_tb - sums.sum_t * sums.sum_b
SlopeDenominator(sums) == sums.n * sums.sum_t2 - sums.sum_t * sums.sum_t

\* compute_battery_trend(history, window_hours) at time t: None, or the
\* slope rounded to hundredths of a percent per hour
compute_battery_trend(history, window_hours, t) ==
  IF history = <<>> THEN None
  ELSE
    LET sums == BatteryTrendSums(history, window_hours, t)
    IN  IF sums.n < 2 THEN None
        ELSE IF sums.sum_t2 = 0 THEN None
        ELSE Some(RoundHalfEven(100 * sums.per_hour * SlopeNumerator(sums),
                                SlopeDenominator(sums)))

\* scores["link_quality"] times 255: min(100, link_val / 255 * 100), 50 for
\* a missing or null link_quality
LinkQualityScore(link_quality) ==
  IF link_quality = None THEN 50 * 255
  ELSE Min(100 * 255, link_quality[1] * 100)

\* the battery, reconnect-rate and connectivity sub-scores, the weighted sum
\* with the link-quality sub-score lq255 (times 255), its clamp to 0..100 and
\* its rounding to one decimal, in tenths
WeightedHealthScore(lq255, device_data, history, window_hours, t) ==
  LET metrics == IF "metrics" \in DOMAIN device_data THEN device_data.metrics
                 ELSE EmptyDict
      battery == Get(metrics, "battery", None)
      last_seen == IF "last_seen" \in DOMAIN metrics THEN Some(metrics.last_seen)
                   ELSE None
      rate == compute_reconnect_rate(history, window_hours, t)
      bat == IF battery = None THEN 50 ELSE Max(0, Min(100, battery[1]))
      \* reconnect sub-score times rate.den
      rr == IF rate.num <= 0 THEN 100 * rate.den
            ELSE IF rate.num >= 10 * rate.den THEN 0
            ELSE 100 * rate.den - 10 * rate.num
      age == t - fromisoformat(last_seen[1]).t
      \* connectivity sub-score times 33
      conn33 == IF last_seen = None THEN 0
                ELSE IF ~fromisoformat(last_seen[1]).ok THEN 50 * 33
                ELSE IF age < 300 THEN 100 * 33
                ELSE IF age > 3600 THEN 0
                ELSE 100 * 33 - (age - 300)
      d == 255 * rate.den * 33
      \* ten times the weighted sum, times d
      total == 3 * lq255 * rate.den * 33 + 2 * bat * d
               + 3 * rr * 255 * 33 + 2 * conn33 * 255 * rate.den
  IN  RoundHalfEven(Max(0, Min(1000 * d, total)), d)

\* compute_health_score(device_data, history) at time t, in tenths
compute_health_score(device_data, history, window_hours, t) ==
  LET metrics == IF "metrics" \in DOMAIN device_data THEN device_data.metrics
                 ELSE EmptyDict
  IN  WeightedHealthScore(LinkQualityScore(Get(metrics, "link_quality", None)),
                          device_data, history, window_hours, t)

\* "battery_trend < -threshold", the trend in hundredths
DrainReaches(trend, threshold) == trend <= -(100 * threshold)
DrainExceeds(trend, threshold) == trend < -(100 * threshold)

\* check_battery_drain_warning(history, threshold) at time t
check_battery_drain_warning(history, threshold, t) ==
  LET battery_trend == compute_battery_trend(history, BATTERY_TREND_WINDOW_HOURS, t)
  IN  IF battery_trend = None THEN FALSE
      ELSE DrainExceeds(battery_trend[1], threshold)

\* "seconds_since_update > 3600"
SeenAnHourAgo(seconds_since_update) == seconds_since_update >= 3600
SeenTooLongAgo(seconds_since_update) == seconds_since_update > 3600

\* check_connectivity_warning(device_data, threshold) at time t: the
\* warning, or the TypeError of compute_reconnect_rate
check_connectivity_warning(device_data, window_hours, threshold, t) ==
  LET history == IF "history" \in DOMAIN device_data THEN device_data.history
                        ELSE <<>>
      rate == compute_reconnect_rate(history, window_hours, t)
      metrics == IF "metrics" \in DOMAIN device_data THEN device_data.metrics
                 ELSE EmptyDict
      last_seen == IF "last_seen" \in DOMAIN metrics THEN Some(metrics.last_seen)
                   ELSE None
  IN  IF rate.raised THEN [raised |-> TRUE]
      ELSE [ raised |-> FALSE,
             value |->
               \/ rate.num >= threshold * rate.den
               \/ /\ last_seen # None
                  /\ fromisoformat(last_seen[1]).ok
                  /\ SeenTooLongAgo(t - fromisoformat(last_seen[1]).t) ]

(***************************************************************************)
(* Device state store: accessors                                           *)
(***************************************************************************)
\* self._devices.get(device_id)
get_device(device_id) ==
  IF device_id \in DOMAIN devices THEN Some(devices[device_id]) ELSE None

\* "if device:" on the result of get_device
Truthy(device) == device # None /\ DOMAIN device[1] # {}

get_device_metrics(device_id) ==
  LET device == get_device(device_id)
  IN  IF Truthy(device)
      THEN (IF "metrics" \in DOMAIN device[1] THEN Some(device[1].metrics) ELSE None)
      ELSE None

\* self._device_history.get(device_id, [])
get_device_history(device_id) ==
  IF device_id \in DOMAIN device_history THEN device_history[device_id] ELSE <<>>

\* variant: the "if not device_history" guard is missing
get_device_reconnect_rateUnguarded(device_id) ==
  Some(compute_reconnect_rate(get_device_history(device_id),
                              DEFAULT_RECONNECT_RATE_WINDOW_HOURS, now))

get_device_reconnect_rate(device_id) ==
  LET h == get_device_history(device_id)
  IN  IF h = <<>> THEN None
      ELSE Some(compute_reconnect_rate(h, DEFAULT_RECONNECT_RATE_WINDOW_HOURS, now))

get_device_battery_trend(device_id) ==
  LET h == get_device_history(device_id)
  IN  IF h = <<>> THEN None
      ELSE compute_battery_trend(h, BATTERY_TREND_WINDOW_HOURS, now)

get_device_health_score(device_id) ==
  LET device == get_device(device_id)
  IN  IF ~Truthy(device) THEN None
      ELSE Some(compute_health_score(device[1], get_device_history(device_id),
                                     DEFAULT_RECONNECT_RATE_WINDOW_HOURS, now))

get_device_battery_drain_warning(device_id) ==
  LET h == get_device_history(device_id)
  IN  IF h = <<>> THEN FALSE
      ELSE check_battery_drain_warning(h, DEFAULT_BATTERY_DRAIN_THRESHOLD, now)

get_device_connectivity_warning(device_id) ==
  LET device == get_device(device_id)
  IN  IF ~Truthy(device) THEN FALSE
      ELSE check_connectivity_warning(
             DictSet(device[1], "history", get_device_history(device_id)),
             DEFAULT_RECONNECT_RATE_WINDOW_HOURS,
             DEFAULT_RECONNECT_RATE_THRESHOLD, now).value

\* what the eight accessors return for a device id
Accessors(device_id) ==
  [ get_device                       |-> get_device(device_id),
    get_device_metrics               |-> get_device_metrics(device_id),
    get_device_history               |-> get_device_history(device_id),
    get_device_reconnect_rate        |-> get_device_reconnect_rate(device_id),
    get_device_battery_trend         |-> get_device_battery_trend(device_id),
    get_device_health_score          |-> get_device_health_score(device_id),
    get_device_battery_drain_warning |-> get_device_battery_drain_warning(device_id),
    get_device_connectivity_warning  |-> get_device_connectivity_warning(device_id) ]


(***************************************************************************)
(* Device state store: MQTT callbacks                                      *)
(***************************************************************************)
\* payload.decode() and json.loads() for bytes and str, else the value itself
DecodePayload(msg) ==
  IF msg.enc \in Encodings THEN JsonLoads(msg.doc)
  ELSE [ok |-> TRUE, value |-> JsonLoads(msg.doc).value]

\* number of fire steps in a list of steps
RECURSIVE CountKind(_, _)
CountKind(steps, kind) ==
  IF steps = <<>> THEN 0
  ELSE (IF steps[1].kind = kind THEN 1 ELSE 0) + CountKind(Tail(steps), kind)

\* variant: the bridge check is missing
IsBridgeIdNever(device_id) == FALSE

\* "if device_id == 'bridge': return"
IsBridgeId(device_id) == device_id = "bridge"

\* the outcome of _on_device_message(msg): the new store and what it did.
\* "except Exception" catches every error and logs it; the store keeps
\* whatever had been written before the error.
DeviceMessageOutcome(devs, hist, msg, t) ==
  LET topic_parts == Split(msg.topic)
      returned == [devices |-> devs, history |-> hist, device_id |-> None,
                   escaped |-> FALSE, steps |-> <<>>]
  IN  IF Len(topic_parts) < 2 THEN returned
      ELSE
        LET device_id == SegmentText(topic_parts[2])
        IN  IF IsBridgeId(device_id) THEN returned
            ELSE
              LET decoded == DecodePayload(msg)
              IN  IF ~decoded.ok
                  THEN [returned EXCEPT !.steps = <<[kind |-> "log_error"]>>]
                  ELSE
                    LET r == ProcessDeviceUpdate(devs, hist, device_id, decoded.value, t)
                    IN  IF r.raised
                        THEN [devices |-> r.devices, history |-> r.history,
                              device_id |-> None, escaped |-> FALSE,
                              steps |-> r.steps \o <<[kind |-> "log_error"]>>]
                        ELSE [devices |-> r.devices, history |-> r.history,
                              device_id |-> Some(device_id), escaped |-> FALSE,
                              steps |-> r.steps \o <<[kind |-> "update_listeners"]>>]

\* total of a per-device counter
RECURSIVE SumOver(_, _)
SumOver(f, ids) ==
  IF ids = {} THEN 0
  ELSE LET id == CHOOSE x \in ids : TRUE IN f[id] + SumOver(f, ids \ {id})

TotalUpdates == SumOver(update_count, DOMAIN update_count)

Bump(f, id) == DictSet(f, id, (IF id \in DOMAIN f THEN f[id] ELSE 0) + 1)

\* the topics of the model, under the configured prefix
Dev1Topic == mqtt_prefix \o <<"/", "dev1">>
Dev2Topic == mqtt_prefix \o <<"/", "dev2">>
Dev1SetTopic == mqtt_prefix \o <<"/", "dev1", "/", "set">>
BridgeTopic == mqtt_prefix \o <<"/", "bridge">>
BridgeStateTopic == mqtt_prefix \o <<"/", "bridge", "/", "state">>
PrefixOnlyTopic == mqtt_prefix

PlainDoc == JsonObject([linkquality |-> Some(100)])
OnlineDoc == JsonObject([state |-> Some("online")])

\* messages delivered to _on_device_message
DeviceMessages ==
  [topic : {Dev1Topic}, enc : {"bytes"}, doc : DeviceDocs]
  \cup [topic : {Dev2Topic}, enc : {"bytes", "str"}, doc : {PlainDoc}]
  \cup [topic : {Dev1SetTopic}, enc : {"object"}, doc : {PlainDoc}]
  \cup [topic : {Dev1Topic}, enc : {"bytes"}, doc : MalformedDocs]
  \cup [topic : {Dev2Topic}, enc : {"object"}, doc : {[json |-> "null"]}]
  \cup [topic : {BridgeTopic, BridgeStateTopic, PrefixOnlyTopic}, enc : {"bytes"},
        doc : {OnlineDoc}]

\* messages delivered to _on_bridge_state
BridgeMessages ==
  [topic : {BridgeStateTopic}, enc : {"bytes"}, doc : {OnlineDoc, JsonInvalid}]

(***************************************************************************)
(* Initial state and the MQTT callbacks                                    *)
(***************************************************************************)
\* no recommendation has been asked for
InitRecommender ==
  /\ wifi_aps = <<>>
  /\ recommendation = None

\* build_topology has not been called
InitTopology ==
  /\ topology_devices = <<>>
  /\ topology = None

\* no method of DeviceAnalytics is being called from outside the store
InitAnalytics ==
  /\ analytics_call = [fn |-> "none"]
  /\ analytics_result = None

\* async_start has not been called
InitStart ==
  /\ start_pc = "idle"
  /\ first_subscribed = None

\* hass.data[DOMAIN] holds no recommendation
InitView ==
  /\ last_recommendation = None
  /\ recommendation_history = None
  /\ posted = <<>>
  /\ service_called = FALSE
  /\ view_response = 0

\* no pure function has been called, no request has been handled
InitCalls ==
  /\ InitRecommender
  /\ InitTopology
  /\ InitAnalytics
  /\ InitStart
  /\ InitView

\* the configuration and lifecycle fields after __init__(mqtt_prefix=prefix);
\* direct is bool(mqtt_broker and mqtt_port)
InitCoordinator(direct, prefix) ==
  /\ mqtt_prefix = prefix
  /\ use_direct_mqtt = direct
  /\ unsub_mqtt = <<>>
  /\ mqtt_callbacks = EmptyDict
  /\ mqtt_client_task = None
  /\ task_state = EmptyDict
  /\ unsub_calls = EmptyDict
  /\ lifecycle = "constructed"
  /\ shutdowns = 0

\* the same with the default mqtt_prefix
InitLifecycle(direct) == InitCoordinator(direct, <<DEFAULT_MQTT_TOPIC_PREFIX>>)

Init ==
  /\ now = 0
  /\ devices = EmptyDict
  /\ device_history = EmptyDict
  /\ update_count = EmptyDict
  /\ appended = EmptyDict
  /\ fired = 0
  /\ notified = 0
  /\ effects = [op |-> "__init__", msg |-> None, escaped |-> FALSE, steps |-> <<>>]
  /\ InitLifecycle(FALSE)
  /\ InitCalls

\* the wall clock advances
Tick ==
  \E dt \in {300, 301} :
    /\ now + dt <= MaxTime
    /\ now' = now + dt
    /\ UNCHANGED <<devices, device_history, update_count, appended,
                   fired, notified, effects, auxVars>>

\* _on_device_message(msg)
HandleDeviceMessage(msg) ==
  LET out == DeviceMessageOutcome(devices, device_history, msg, now)
  IN  /\ devices' = out.devices
      /\ device_history' = out.history
      /\ update_count' = IF out.device_id = None THEN update_count
                         ELSE Bump(update_count, out.device_id[1])
      /\ appended' =
           IF out.device_id = None THEN appended
           ELSE LET id == out.device_id[1]
                    h == out.history[id]
                IN  DictSet(appended, id,
                      Append(IF id \in DOMAIN appended THEN appended[id] ELSE <<>>,
                             h[Len(h)]))
      /\ fired' = fired + CountKind(out.steps, "fire")
      /\ notified' = notified + CountKind(out.steps, "update_listeners")
      /\ effects' = [op |-> "_on_device_message", msg |-> msg,
                     escaped |-> out.escaped, steps |-> out.steps]
      /\ UNCHANGED <<now, auxVars>>

\* a message is delivered while fewer than limit updates were made
DeliverDeviceMessage(limit) ==
  \E msg \in DeviceMessages : TotalUpdates < limit /\ HandleDeviceMessage(msg)

OnDeviceMessage == DeliverDeviceMessage(MaxUpdates)

\* _on_bridge_state(msg)
OnBridgeState ==
  \E msg \in BridgeMessages :
    LET decoded == DecodePayload(msg)
    IN  /\ IF decoded.ok
           THEN /\ devices' = DictSet(devices, "bridge",
                                [state |-> decoded.value,
                                 last_update |-> isoformat(now)])
                /\ effects' = [op |-> "_on_bridge_state", msg |-> msg,
                               escaped |-> FALSE, steps |-> <<>>]
           ELSE /\ devices' = devices
                /\ effects' = [op |-> "_on_bridge_state", msg |-> msg,
                               escaped |-> FALSE, steps |-> <<[kind |-> "log_error"]>>]
        /\ UNCHANGED <<now, device_history, update_count, appended, fired, notified,
                       auxVars>>

Next == Tick \/ OnDeviceMessage \/ OnBridgeState

Spec == Init /\ [][Next]_vars

(***************************************************************************)
(* MQTT lifecycle: subscription matching and the lifecycle calls            *)
(***************************************************************************)
\* str.rstrip(ch)
RECURSIVE RStrip(_, _)
RStrip(text, ch) ==
  IF text # <<>> /\ text[Len(text)] = ch
  THEN RStrip(SubSeq(text, 1, Len(text) - 1), ch)
  ELSE text

\* str.startswith(prefix)
StartsWith(text, prefix) ==
  Len(prefix) <= Len(text) /\ SubSeq(text, 1, Len(prefix)) = prefix

\* _topic_matches(topic, pattern)
TopicMatches(topic, pattern) ==
  IF pattern = <<"#">>
     \/ (Len(pattern) >= 2 /\ SubSeq(pattern, Len(pattern) - 1, Len(pattern)) = <<"/", "#">>)
  THEN StartsWith(topic, RStrip(RStrip(pattern, "#"), "/"))
  ELSE topic = pattern

\* the lifecycle fields as one record
LifeState ==
  [ use_direct |-> use_direct_mqtt, unsub |-> unsub_mqtt,
    callbacks |-> mqtt_callbacks, task |-> mqtt_client_task,
    task_state |-> task_state, unsub_calls |-> unsub_calls, raised |-> FALSE ]

\* _start_direct_mqtt(): ImportError when aiomqtt is missing, else the client
\* task is created and stored
StartDirectMqtt(st, aiomqtt) ==
  IF ~aiomqtt THEN [st EXCEPT !.raised = TRUE]
  ELSE LET id == Cardinality(DOMAIN st.task_state) + 1
       IN  [st EXCEPT !.task = Some(id),
                      !.task_state = DictSet(st.task_state, id, "running")]

\* the direct branch of _subscribe_mqtt: the callback is registered
RegisterCallback(st, topic, callback) ==
  [st EXCEPT !.callbacks =
     DictSet(st.callbacks, topic,
             Append(IF topic \in DOMAIN st.callbacks THEN st.callbacks[topic] ELSE <<>>,
                    callback))]

\* _subscribe_mqtt(topic, callback).  env.ha is what async_wait_for_mqtt_client
\* returns, env.fails whether mqtt.async_subscribe raises
SubscribeMqtt(st, topic, callback, env) ==
  IF st.raised THEN st
  ELSE IF st.use_direct THEN RegisterCallback(st, topic, callback)
  ELSE IF ~env.ha
       THEN LET fallback == StartDirectMqtt([st EXCEPT !.use_direct = TRUE], env.aiomqtt)
            IN  IF fallback.raised THEN fallback
                ELSE RegisterCallback(fallback, topic, callback)
  ELSE IF env.fails THEN [st EXCEPT !.raised = TRUE]
  ELSE LET id == Cardinality(DOMAIN st.unsub_calls) + 1
           handle == [id |-> id, topic |-> topic, callback |-> callback]
       IN  [st EXCEPT !.unsub = Append(st.unsub, handle),
                      !.unsub_calls = DictSet(st.unsub_calls, id, 0)]

\* async_start()
AsyncStart(st, env1, env2) ==
  LET st0 == IF st.use_direct THEN StartDirectMqtt(st, env1.aiomqtt) ELSE st
      st1 == SubscribeMqtt(st0, mqtt_prefix \o <<"/", "bridge", "/", "state">>,
                           "_on_bridge_state", env1)
  IN  SubscribeMqtt(st1, mqtt_prefix \o <<"/", "#">>, "_on_device_message", env2)

\* invoke every handle of the list once more
RECURSIVE InvokeAll(_, _)
InvokeAll(handles, calls) ==
  IF handles = <<>> THEN calls
  ELSE InvokeAll(Tail(handles),
                 DictSet(calls, handles[1].id, calls[handles[1].id] + 1))

\* variant: the list of handles is not cleared after the loop
AsyncShutdownKeepsHandles(st) ==
  LET cancelled == IF st.task # None /\ st.task_state[st.task[1]] = "running"
                   THEN DictSet(st.task_state, st.task[1], "cancelled")
                   ELSE st.task_state
  IN  [st EXCEPT !.task_state = cancelled,
                 !.unsub_calls = InvokeAll(st.unsub, st.unsub_calls),
                 !.callbacks = EmptyDict]

\* async_shutdown(): cancel the running client task, invoke and drop the
\* handles, drop the callbacks
AsyncShutdown(st) ==
  LET cancelled == IF st.task # None /\ st.task_state[st.task[1]] = "running"
                   THEN DictSet(st.task_state, st.task[1], "cancelled")
                   ELSE st.task_state
  IN  [st EXCEPT !.task_state = cancelled,
                 !.unsub_calls = InvokeAll(st.unsub, st.unsub_calls),
                 !.unsub = <<>>,
                 !.callbacks = EmptyDict]

SetLifeState(st) ==
  /\ mqtt_prefix' = mqtt_prefix
  /\ use_direct_mqtt' = st.use_direct
  /\ unsub_mqtt' = st.unsub
  /\ mqtt_callbacks' = st.callbacks
  /\ mqtt_client_task' = st.task
  /\ task_state' = st.task_state
  /\ unsub_calls' = st.unsub_calls

StartEnvs == [ha : BOOLEAN, fails : BOOLEAN, aiomqtt : BOOLEAN]

\* the host sets the entry up: async_start() is called once
Start ==
  \E env1, env2 \in StartEnvs :
    LET st == AsyncStart(LifeState, env1, env2)
    IN  /\ lifecycle = "constructed"
        /\ SetLifeState(st)
        /\ lifecycle' = IF st.raised THEN "start_failed" ELSE "started"
        /\ UNCHANGED <<shutdowns, storeVars, callVars>>

\* the host unloads the entry: async_shutdown()
Shutdown ==
  /\ shutdowns < MaxShutdowns
  /\ SetLifeState(AsyncShutdown(LifeState))
  /\ lifecycle' = "shut_down"
  /\ shutdowns' = shutdowns + 1
  /\ UNCHANGED <<storeVars, callVars>>

\* the callback is subscribed to the topic: through a handle of the host's
\* MQTT integration, or through the running client task and its dispatch
\* over _mqtt_callbacks
CallbackSubscribed(callback, topic) ==
  \/ \E i \in 1..Len(unsub_mqtt) :
       /\ unsub_mqtt[i].callback = callback
       /\ TopicMatches(topic, unsub_mqtt[i].topic)
  \/ /\ mqtt_client_task # None
     /\ task_state[mqtt_client_task[1]] = "running"
     /\ \E pattern \in DOMAIN mqtt_callbacks :
          /\ TopicMatches(topic, pattern)
          /\ \E i \in 1..Len(mqtt_callbacks[pattern]) :
               mqtt_callbacks[pattern][i] = callback

\* a message reaches _on_device_message while it is subscribed
OnSubscribedDeviceMessage ==
  \E msg \in DeviceMessages :
    /\ CallbackSubscribed("_on_device_message", msg.topic)
    /\ TotalUpdates < MaxLifecycleUpdates
    /\ HandleDeviceMessage(msg)

InitLifecycleSpec ==
  /\ now = 0
  /\ devices = EmptyDict
  /\ device_history = EmptyDict
  /\ update_count = EmptyDict
  /\ appended = EmptyDict
  /\ fired = 0
  /\ notified = 0
  /\ effects = [op |-> "__init__", msg |-> None, escaped |-> FALSE, steps |-> <<>>]
  /\ \E direct \in BOOLEAN : InitLifecycle(direct)
  /\ InitCalls

NextLifecycle == Start \/ Shutdown \/ OnSubscribedDeviceMessage

SpecLifecycle == InitLifecycleSpec /\ [][NextLifecycle]_vars

\* the prefixes a coordinator is configured with: the default and one that
\* contains "/"
MqttPrefixes == { <<DEFAULT_MQTT_TOPIC_PREFIX>>, <<"custom", "/", "prefix">> }

\* the lifecycle of a coordinator constructed with any of these prefixes
InitPrefixSpec ==
  /\ \E direct \in BOOLEAN, prefix \in MqttPrefixes : InitCoordinator(direct, prefix)
  /\ now = 0
  /\ devices = EmptyDict
  /\ device_history = EmptyDict
  /\ update_count = EmptyDict
  /\ appended = EmptyDict
  /\ fired = 0
  /\ notified = 0
  /\ effects = [op |-> "__init__", msg |-> None, escaped |-> FALSE, steps |-> <<>>]
  /\ InitCalls

SpecPrefix == InitPrefixSpec /\ [][NextLifecycle]_vars

\* C8: when async_shutdown completes, every handle registered in _unsub_mqtt
\* has been invoked exactly once, _unsub_mqtt and _mqtt_callbacks are empty
\* and the client task, if one was started, is cancelled or done; a second
\* async_shutdown invokes no handle again.
C8_ShutdownReleasesAll ==
  lifecycle = "shut_down" =>
    /\ \A handle \in DOMAIN unsub_calls : unsub_calls[handle] = 1
    /\ unsub_mqtt = <<>>
    /\ mqtt_callbacks = EmptyDict
    /\ \A task \in DOMAIN task_state : task_state[task] \in {"cancelled", "done"}

\* async_shutdown ran twice on a coordinator that held a handle of the host's
\* MQTT integration and a client task started by the fallback
C8_Witness ==
  /\ shutdowns = 2
  /\ DOMAIN unsub_calls # {}
  /\ mqtt_client_task # None
  /\ task_state[mqtt_client_task[1]] = "cancelled"

(***************************************************************************)
(* A store whose first device is close to the history limit                *)
(***************************************************************************)
\* the i-th telemetry message of the device that fills its history
FillMessage(i) ==
  [topic |-> <<DEFAULT_MQTT_TOPIC_PREFIX, "/", "dev1">>, enc |-> "bytes",
   doc |-> JsonObject([linkquality |-> Some(i % 255)])]

\* the store after dev1's i-th message, handled at time i
FillStep(st, i) ==
  LET out == DeviceMessageOutcome(st.devices, st.history, FillMessage(i), i)
  IN  [devices |-> out.devices, history |-> out.history,
       appended |-> Append(st.appended, out.history["dev1"][Len(out.history["dev1"])]),
       steps |-> out.steps]

\* the store after dev1's messages lo..hi, in order, from the store st
\* that holds the first lo - 1 of them
RECURSIVE FillRange(_, _, _)
FillRange(st, lo, hi) ==
  IF Len(st.appended) # lo - 1 \/ lo > hi THEN st
  ELSE IF lo = hi THEN FillStep(st, lo)
  ELSE FillRange(FillRange(st, lo, (lo + hi) \div 2), (lo + hi) \div 2 + 1, hi)

\* the store after k messages of dev1
Filled(k) ==
  FillRange([devices |-> EmptyDict, history |-> EmptyDict, appended |-> <<>>,
             steps |-> <<>>], 1, k)

InitHistory ==
  \E k \in (HISTORY_LIMIT - MaxFill)..HISTORY_LIMIT :
    LET f == Filled(k)
    IN  /\ InitLifecycle(FALSE)
        /\ now = k
        /\ devices = f.devices
        /\ device_history = f.history
        /\ update_count = [id \in {"dev1"} |-> k]
        /\ appended = [id \in {"dev1"} |-> f.appended]
        /\ fired = k
        /\ notified = k
        /\ effects = [op |-> "_on_device_message", msg |-> FillMessage(k),
                      escaped |-> FALSE, steps |-> f.steps]
        /\ InitCalls

OnDeviceMessageNearLimit == DeliverDeviceMessage(HISTORY_LIMIT + MaxOver)

NextHistory == OnDeviceMessageNearLimit

SpecHistory == InitHistory /\ [][NextHistory]_vars

(***************************************************************************)
(* Properties of the device state store                                    *)
(***************************************************************************)
\* the device id _on_device_message reads from a topic, None when it returns
\* before reading one
TopicDeviceId(topic) ==
  IF Len(Split(topic)) < 2 THEN None ELSE Some(SegmentText(Split(topic)[2]))

\* the devices that the step from the current state to the next one updated
UpdatedIds ==
  { id \in DOMAIN update_count' :
      id \notin DOMAIN update_count \/ update_count'[id] # update_count[id] }

\* C1: after n updates of a device its history holds exactly min(n, 1000)
\* entries, and they are the min(n, 1000) most recently appended ones in
\* arrival order (the oldest is the one evicted).
C1_HistoryIsMostRecent ==
  /\ DOMAIN device_history = DOMAIN update_count
  /\ \A id \in DOMAIN device_history :
       LET n == update_count[id]
           m == IF n < HISTORY_LIMIT THEN n ELSE HISTORY_LIMIT
       IN  /\ Len(appended[id]) = n
           /\ Len(device_history[id]) = m
           /\ \A i \in 1..m : device_history[id][i] = appended[id][n - m + i]

\* a device has been updated more than 1000 times and its oldest entries are gone
C1_Witness ==
  \E id \in DOMAIN update_count :
    /\ update_count[id] = HISTORY_LIMIT + 2
    /\ Len(device_history[id]) = HISTORY_LIMIT
    /\ device_history[id][1] = appended[id][3]

\* C2: for a known device an update at time t whose gap to the stored
\* metrics.last_seen is strictly greater than 300 s adds exactly 1 to
\* reconnect_count and sets last_reconnect to t; a gap of 300 s or less leaves
\* both unchanged; the first update of a new device leaves reconnect_count 0.
C2_ReconnectDetection ==
  [][\A id \in UpdatedIds :
       IF id \notin DOMAIN devices
       THEN devices'[id].reconnect_count = 0
       ELSE LET t == devices'[id].metrics.last_seen.t
                gap == t - devices[id].metrics.last_seen.t
            IN  IF gap > 300
                THEN /\ devices'[id].reconnect_count = devices[id].reconnect_count + 1
                     /\ devices'[id].last_reconnect = Some(isoformat(t))
                ELSE /\ devices'[id].reconnect_count = devices[id].reconnect_count
                     /\ devices'[id].last_reconnect = devices[id].last_reconnect]_vars

\* a device updated three times, 300 s apart (no reconnect) and then 301 s
\* apart (one reconnect)
C2_Witness ==
  \E id \in DOMAIN update_count :
    /\ update_count[id] = 3
    /\ device_history[id][2].timestamp.t - device_history[id][1].timestamp.t = 300
    /\ device_history[id][3].timestamp.t - device_history[id][2].timestamp.t = 301
    /\ devices[id].reconnect_count = 1
    /\ devices[id].last_reconnect = Some(device_history[id][3].timestamp)

\* C3: after every update of a device its record holds analytics_metrics with
\* at least health_score and reconnect_rate.
C3_AnalyticsMetricsCached ==
  \A id \in DOMAIN update_count :
    /\ "analytics_metrics" \in DOMAIN devices[id]
    /\ {"health_score", "reconnect_rate"} \subseteq DOMAIN devices[id].analytics_metrics

\* C4: a message handled by _on_device_message whose second topic segment is
\* "bridge" changes no device record, no history and no reconnect_count and
\* emits no event; _on_bridge_state only replaces the "bridge" slot; so the
\* "bridge" entry never has a history, metrics or a reconnect_count.
C4_BridgeIsSeparate ==
  /\ [][(effects'.op = "_on_device_message"
          /\ TopicDeviceId(effects'.msg.topic) = Some("bridge"))
        => (/\ UNCHANGED <<devices, device_history, update_count, fired, notified>>
            /\ effects'.steps = <<>>)]_vars
  /\ [][effects'.op = "_on_bridge_state"
        => (/\ UNCHANGED <<device_history, update_count, fired, notified>>
            /\ \A id \in DOMAIN devices \ {"bridge"} :
                 id \in DOMAIN devices' /\ devices'[id] = devices[id]
            /\ DOMAIN devices' \subseteq DOMAIN devices \cup {"bridge"})]_vars
  /\ [](/\ "bridge" \notin DOMAIN device_history
        /\ "bridge" \in DOMAIN devices =>
             DOMAIN devices["bridge"] = {"state", "last_update"})

\* a bridge message was just handled by _on_device_message while the store
\* holds the bridge state and an updated device
C4_Witness ==
  /\ effects.op = "_on_device_message"
  /\ effects.msg.topic = BridgeStateTopic
  /\ "bridge" \in DOMAIN devices
  /\ "dev1" \in DOMAIN devices

\* payloads that are not valid JSON or whose JSON value is not an object
IsMalformed(msg) == msg.doc.json # "object"

\* C5: when _on_device_message receives a payload that is not valid JSON, a
\* JSON value that is not an object, or a topic with fewer than two segments,
\* it returns without raising and leaves the device map, every history and
\* every reconnect_count as before, and emits no update event.
C5_MalformedIsIgnored ==
  [][(effects'.op = "_on_device_message"
       /\ (IsMalformed(effects'.msg) \/ Len(Split(effects'.msg.topic)) < 2))
     => (/\ ~effects'.escaped
         /\ UNCHANGED <<devices, device_history, update_count, fired>>
         /\ \A i \in 1..Len(effects'.steps) : effects'.steps[i].kind # "fire")]_vars

\* an invalid payload arrived for a device that had been updated before
C5_Witness ==
  /\ effects.op = "_on_device_message"
  /\ effects.msg.doc = JsonInvalid
  /\ effects.msg.topic = Dev1Topic
  /\ "dev1" \in DOMAIN devices
  /\ effects.steps = <<[kind |-> "log_error"]>>

\* C6: every completed update emits exactly one zigsight_device_update event
\* carrying the device id and the new metrics, after the record and the
\* history reflect the update; the listeners are notified after that.
C6_EventAfterStore ==
  [][\A id \in UpdatedIds :
       LET steps == effects'.steps
           h == device_history'[id]
       IN  /\ Len(steps) = 2
           /\ steps[1].kind = "fire"
           /\ steps[1].event_type = "zigsight_device_update"
           /\ steps[1].event_data =
                [device_id |-> id, metrics |-> devices'[id].metrics]
           /\ steps[1].seen_metrics = Some(devices'[id].metrics)
           /\ steps[1].seen_history_len = Len(h)
           /\ steps[1].seen_history_last =
                Some([timestamp |-> devices'[id].last_update,
                      metrics |-> devices'[id].metrics])
           /\ h[Len(h)] = steps[1].seen_history_last[1]
           /\ steps[2].kind = "update_listeners"
           /\ fired' = fired + 1
           /\ notified' = notified + 1]_vars

\* the second update of a device has just fired its event
C6_Witness ==
  /\ effects.op = "_on_device_message"
  /\ Len(effects.steps) = 2
  /\ effects.steps[1].kind = "fire"
  /\ effects.steps[1].seen_history_len = 2
  /\ fired = 2

\* what the accessors return when they have nothing to report
AccessorDefaults ==
  [ get_device                       |-> None,
    get_device_metrics               |-> None,
    get_device_history               |-> <<>>,
    get_device_reconnect_rate        |-> None,
    get_device_battery_trend         |-> None,
    get_device_health_score          |-> None,
    get_device_battery_drain_warning |-> FALSE,
    get_device_connectivity_warning  |-> FALSE ]

\* C7 as stated: for every device id that has never been updated the eight
\* accessors return their defaults (None, None, [], None, None, None, False,
\* False).
C7_NeverUpdatedGivesDefaults ==
  \A id \in QueryIds :
    id \notin DOMAIN update_count => Accessors(id) = AccessorDefaults

\* C7 as amended: for every device id that has no entry in the device map
\* the eight accessors return their defaults; the id "bridge" has an entry
\* once a bridge state is stored, and then get_device returns that slot and
\* get_device_health_score returns 55.0 while the other six return defaults.
C7_AbsentGivesDefaults ==
  \A id \in QueryIds :
    /\ id \notin DOMAIN devices => Accessors(id) = AccessorDefaults
    /\ (id \in DOMAIN devices /\ id \notin DOMAIN update_count) =>
         /\ id = "bridge"
         /\ Accessors(id) =
              [AccessorDefaults EXCEPT !.get_device = Some(devices["bridge"]),
                                       !.get_device_health_score = Some(550)]

\* the store holds the bridge state and an updated device, and two of the
\* ids asked about have no entry
C7_Witness ==
  /\ "bridge" \in DOMAIN devices
  /\ "dev1" \in DOMAIN update_count
  /\ update_count["dev1"] >= 2
  /\ "dev2" \notin DOMAIN devices
  /\ Accessors("dev2") = AccessorDefaults
  /\ Accessors("unknown") = AccessorDefaults
  /\ Accessors("dev1").get_device_health_score # None

(***************************************************************************)
(* Zigbee channel recommender (recommender.py).  Scores are kept exact: a  *)
(* score or interference factor x is held as the integer ScoreScale * x.   *)
(***************************************************************************)
\* 22 (the divisor of the overlap) times 3 (100 / 60 in lowest terms is 5 / 3)
ScoreScale == 66

WIFI_CHANNEL_FREQ ==
  (1 :> 2412) @@ (2 :> 2417) @@ (3 :> 2422) @@ (4 :> 2427) @@ (5 :> 2432)
  @@ (6 :> 2437) @@ (7 :> 2442) @@ (8 :> 2447) @@ (9 :> 2452) @@ (10 :> 2457)
  @@ (11 :> 2462) @@ (12 :> 2467) @@ (13 :> 2472) @@ (14 :> 2484)

ZIGBEE_CHANNEL_FREQ ==
  (11 :> 2405) @@ (12 :> 2410) @@ (13 :> 2415) @@ (14 :> 2420) @@ (15 :> 2425)
  @@ (16 :> 2430) @@ (17 :> 2435) @@ (18 :> 2440) @@ (19 :> 2445)
  @@ (20 :> 2450) @@ (21 :> 2455) @@ (22 :> 2460) @@ (23 :> 2465)
  @@ (24 :> 2470) @@ (25 :> 2475) @@ (26 :> 2480)

RECOMMENDED_ZIGBEE_CHANNELS == <<11, 15, 20, 25>>

Abs(x) == IF x < 0 THEN -x ELSE x

\* calculate_overlap_factor(): overlap_percentage is (22 - distance) / 22 and
\* normalized_rssi is the clamp of (rssi + 90) * 5 to 0..300, over 3
calculate_overlap_factorUnclamped(wifi_channel, zigbee_channel, rssi) ==
  IF wifi_channel \notin DOMAIN WIFI_CHANNEL_FREQ THEN 0
  ELSE IF zigbee_channel \notin DOMAIN ZIGBEE_CHANNEL_FREQ THEN 0
  ELSE LET freq_distance == Abs(WIFI_CHANNEL_FREQ[wifi_channel]
                                  - ZIGBEE_CHANNEL_FREQ[zigbee_channel])
       IN  IF freq_distance > 22 THEN 0
           ELSE Max(0, 22 - freq_distance) * ((rssi + 90) * 5)

calculate_overlap_factor(wifi_channel, zigbee_channel, rssi) ==
  IF wifi_channel \notin DOMAIN WIFI_CHANNEL_FREQ THEN 0
  ELSE IF zigbee_channel \notin DOMAIN ZIGBEE_CHANNEL_FREQ THEN 0
  ELSE LET wifi_freq == WIFI_CHANNEL_FREQ[wifi_channel]
           zigbee_freq == ZIGBEE_CHANNEL_FREQ[zigbee_channel]
           freq_distance == Abs(wifi_freq - zigbee_freq)
       IN  IF freq_distance > 22 THEN 0
           ELSE LET overlap_percentage == Max(0, 22 - freq_distance)
                    normalized_rssi == Max(0, Min(300, (rssi + 90) * 5))
                IN  overlap_percentage * normalized_rssi

\* the sum the loop of score_zigbee_channel() accumulates
RECURSIVE TotalInterference(_, _)
TotalInterference(zigbee_channel, aps) ==
  IF aps = <<>> THEN 0
  ELSE LET ap == aps[Len(aps)]
           wifi_channel == Get(ap, "channel", None)
           rssi == Get(ap, "rssi", Some(-90))
       IN  TotalInterference(zigbee_channel, SubSeq(aps, 1, Len(aps) - 1))
           + (IF wifi_channel = None THEN 0
              ELSE calculate_overlap_factor(wifi_channel[1], zigbee_channel,
                                            rssi[1]))

\* score_zigbee_channel(): the sum capped at 100
score_zigbee_channel(zigbee_channel, aps) ==
  Min(100 * ScoreScale, TotalInterference(zigbee_channel, aps))

\* min() keeps the item it holds unless the next key is smaller
ReplacesBestOnTie(score, best_score) == score <= best_score
ReplacesBest(score, best_score) == score < best_score

\* min(scores.items(), key=lambda x: x[1])[0] from the i-th item on, the
\* dict iterating in insertion order
RECURSIVE MinItemFrom(_, _, _, _)
MinItemFrom(order, scores, i, best) ==
  IF i > Len(order) THEN best
  ELSE MinItemFrom(order, scores, i + 1,
         IF ReplacesBest(scores[order[i]], scores[best]) THEN order[i] ELSE best)

\* "if ch:" holds for a channel that is neither None nor 0
TruthyChannel(ap) ==
  /\ Get(ap, "channel", None) # None
  /\ Get(ap, "channel", None)[1] # 0

\* sorted(wifi_channel_summary.keys())
RECURSIVE SortedKeys(_)
SortedKeys(keys) ==
  IF keys = {} THEN <<>>
  ELSE LET least == CHOOSE k \in keys : \A other \in keys : k <= other
       IN  <<least>> \o SortedKeys(keys \ {least})

\* the parts of the explanation text that depend on the input
Explanation(aps, best_channel, best_score) ==
  LET used == { Get(aps[i], "channel", None)[1] :
                  i \in { j \in 1..Len(aps) : TruthyChannel(aps[j]) } }
      wifi_channels_used == SortedKeys(used)
      shown == SubSeq(wifi_channels_used, 1, Min(5, Len(wifi_channels_used)))
  IN  [ analyzed |-> Len(aps),
        wifi_summary |->
          [ k \in 1..Len(shown) |->
              [ch |-> shown[k],
               aps |-> Cardinality({ j \in 1..Len(aps) :
                                       /\ TruthyChannel(aps[j])
                                       /\ aps[j].channel[1] = shown[k] })] ],
        best_channel |-> best_channel,
        \* {best_score:.1f}, in tenths
        best_score |-> RoundHalfEven(best_score * 10, ScoreScale),
        remark |-> IF best_score < 20 * ScoreScale THEN "minimal"
                   ELSE IF best_score < 50 * ScoreScale THEN "moderate"
                   ELSE "significant" ]

\* what recommend_zigbee_channel() returns for "not wifi_aps"
DefaultRecommendation ==
  [ recommended_channel |-> 25,
    scores |-> (11 :> 0) @@ (15 :> 0) @@ (20 :> 0) @@ (25 :> 0),
    explanation |-> [analyzed |-> 0, wifi_summary |-> <<>>, best_channel |-> 25,
                     best_score |-> 0, remark |-> "no data"] ]

\* what recommend_zigbee_channel() returns after scoring the candidates
ScoredRecommendation(aps) ==
  LET order == RECOMMENDED_ZIGBEE_CHANNELS
      scores == [ zigbee_ch \in { order[i] : i \in 1..Len(order) } |->
                    score_zigbee_channel(zigbee_ch, aps) ]
      best_channel == MinItemFrom(order, scores, 2, order[1])
      best_score == scores[best_channel]
  IN  [ recommended_channel |-> best_channel,
        scores |-> scores,
        explanation |-> Explanation(aps, best_channel, best_score) ]

recommend_zigbee_channelAlwaysScores(aps) == ScoredRecommendation(aps)

recommend_zigbee_channel(aps) ==
  IF Len(aps) = 0 THEN DefaultRecommendation ELSE ScoredRecommendation(aps)

\* access points: in-range and out-of-range channels, strong, weak and
\* out-of-range signals, and entries without a channel or without an rssi
AccessPoints ==
  [channel : {Some(1), Some(6), Some(11), Some(13)}, rssi : {Some(-30), Some(-60)}]
  \cup { [channel |-> Some(1)],
         [rssi |-> Some(-50)],
         [channel |-> Some(0), rssi |-> Some(-30)],
         [channel |-> Some(15), rssi |-> Some(-20)],
         [channel |-> Some(6), rssi |-> Some(-95)],
         [channel |-> Some(14), rssi |-> Some(-20), ssid |-> Some("Guest")] }

\* the lists of at most MaxAps access points
ApLists == UNION { [1..n -> AccessPoints] : n \in 0..MaxAps }

\* a caller holds a list of access points and has not asked yet
InitRecommend ==
  /\ now = 0
  /\ devices = EmptyDict
  /\ device_history = EmptyDict
  /\ update_count = EmptyDict
  /\ appended = EmptyDict
  /\ fired = 0
  /\ notified = 0
  /\ effects = [op |-> "__init__", msg |-> None, escaped |-> FALSE, steps |-> <<>>]
  /\ InitLifecycle(FALSE)
  /\ wifi_aps \in ApLists
  /\ recommendation = None
  /\ InitTopology
  /\ InitAnalytics
  /\ InitStart
  /\ InitView

\* recommend_zigbee_channel(wifi_aps)
Recommend ==
  /\ recommendation = None
  /\ recommendation' = Some(recommend_zigbee_channel(wifi_aps))
  /\ UNCHANGED <<wifi_aps, storeVars, lifeVars, topoVars, analyticsVars, startVars, viewVars>>

NextRecommend == Recommend

SpecRecommend == InitRecommend /\ [][NextRecommend]_vars

\* the position of a candidate in the order of evaluation
CandidateIndex(ch) ==
  CHOOSE i \in 1..Len(RECOMMENDED_ZIGBEE_CHANNELS) :
    RECOMMENDED_ZIGBEE_CHANNELS[i] = ch

Candidates ==
  { RECOMMENDED_ZIGBEE_CHANNELS[i] : i \in 1..Len(RECOMMENDED_ZIGBEE_CHANNELS) }

\* C9: for every non-empty list of access points the recommended channel is
\* a candidate whose score is less than or equal to the score of each of the
\* candidates 11, 15, 20, 25 (each candidate's score being what
\* score_zigbee_channel gives for it), and among the candidates that share
\* the minimum score it is the earliest in the order 11, 15, 20, 25.
C9_BestChannelHasLowestScore ==
  (recommendation # None /\ wifi_aps # <<>>) =>
    LET result == recommendation[1]
        best == result.recommended_channel
    IN  /\ Candidates = {11, 15, 20, 25}
        /\ best \in Candidates
        /\ DOMAIN result.scores = Candidates
        /\ \A c \in Candidates :
             /\ result.scores[c] = score_zigbee_channel(c, wifi_aps)
             /\ result.scores[best] <= result.scores[c]
             /\ result.scores[c] = result.scores[best] =>
                  CandidateIndex(best) <= CandidateIndex(c)

\* a recommendation where candidates 20 and 25 share the minimum score, 11
\* and 15 score higher, and 20 is returned
C9_Witness ==
  /\ recommendation # None
  /\ wifi_aps # <<>>
  /\ recommendation[1].recommended_channel = 20
  /\ recommendation[1].scores[20] = recommendation[1].scores[25]
  /\ recommendation[1].scores[11] > recommendation[1].scores[15]
  /\ recommendation[1].scores[15] > recommendation[1].scores[20]

\* C10: called with an empty list of access points, recommend_zigbee_channel
\* returns recommended_channel 25 and the scores {11: 0, 15: 0, 20: 0, 25: 0}.
C10_EmptyListGivesDefault ==
  (recommendation # None /\ wifi_aps = <<>>) =>
    /\ recommendation[1].recommended_channel = 25
    /\ recommendation[1].scores = (11 :> 0) @@ (15 :> 0) @@ (20 :> 0) @@ (25 :> 0)

\* the recommendation for the empty list has been made
C10_Witness ==
  /\ wifi_aps = <<>>
  /\ recommendation # None
  /\ "explanation" \in DOMAIN recommendation[1]

(***************************************************************************)
(* Topology builder (topology.py).  The argument is the sequence of the    *)
(* items of the device dict, in the dict's order; the values of the input  *)
(* dicts are None (JSON null) or Some(v).                                  *)
(***************************************************************************)
MaxTopologyDevices == 2

\* the node inserted when no node is a coordinator
SynthesizedCoordinator ==
  [ id |-> "coordinator", label |-> Some("Coordinator"), type |-> "coordinator",
    link_quality |-> Some(255), battery |-> None, last_seen |-> None,
    health_score |-> Some(1000), analytics |-> EmptyDict ]

\* the node type for the "type" of the last message
NodeType(last_message) ==
  LET node_type == Get(last_message, "type", Some("end_device"))
  IN  IF node_type = Some("Router") THEN "router"
      ELSE IF node_type = Some("Coordinator") THEN "coordinator"
      ELSE "end_device"

\* "if parent_ieee:" holds for a value that is neither None nor empty
DeclaresParentKey(last_message) == "parent_ieee" \in DOMAIN last_message
DeclaresParent(last_message) ==
  /\ Get(last_message, "parent_ieee", None) # None
  /\ Get(last_message, "parent_ieee", None) # Some("")

\* one pass of the loop for a device that is not the bridge: the node and the
\* edge, or AttributeError when .get is called on None
DeviceNode(device_id, device_data) ==
  LET metrics == Get(device_data, "metrics", Some(EmptyDict))
      analytics_metrics == Get(device_data, "analytics_metrics", Some(EmptyDict))
  IN  IF metrics = None THEN [raised |-> TRUE]
      ELSE LET last_message == Get(metrics[1], "last_message", Some(EmptyDict))
           IN  IF last_message = None \/ analytics_metrics = None
               THEN [raised |-> TRUE]
               ELSE
    [ raised |-> FALSE,
      node |->
        [ id |-> device_id,
          label |-> Get(device_data, "friendly_name", Some(device_id)),
          type |-> NodeType(last_message[1]),
          link_quality |-> Get(metrics[1], "link_quality", None),
          battery |-> Get(metrics[1], "battery", None),
          last_seen |-> Get(metrics[1], "last_seen", None),
          health_score |-> Get(analytics_metrics[1], "health_score", None),
          analytics |->
            [ reconnect_rate |-> Get(analytics_metrics[1], "reconnect_rate", None),
              battery_trend |-> Get(analytics_metrics[1], "battery_trend", None),
              battery_drain_warning |->
                Get(analytics_metrics[1], "battery_drain_warning", None),
              connectivity_warning |->
                Get(analytics_metrics[1], "connectivity_warning", None) ] ],
      edges |->
        IF DeclaresParent(last_message[1])
        THEN << [ from |-> last_message[1].parent_ieee[1],
                  to |-> device_id,
                  link_quality |-> Get(metrics[1], "link_quality", Some(0)) ] >>
        ELSE <<>> ]

\* the loop over devices.items()
RECURSIVE CollectNodes(_)
CollectNodes(items) ==
  IF items = <<>> THEN [raised |-> FALSE, nodes |-> <<>>, edges |-> <<>>]
  ELSE LET before == CollectNodes(SubSeq(items, 1, Len(items) - 1))
           item == items[Len(items)]
       IN  IF before.raised THEN before
           ELSE IF item.id = "bridge" THEN before
           ELSE LET this == DeviceNode(item.id, item.data)
                IN  IF this.raised THEN [raised |-> TRUE]
                    ELSE [ raised |-> FALSE,
                           nodes |-> Append(before.nodes, this.node),
                           edges |-> before.edges \o this.edges ]

\* sum(1 for n in nodes if n["type"] == node_type)
CountType(nodes, node_type) ==
  Cardinality({ i \in 1..Len(nodes) : nodes[i].type = node_type })

\* the coordinator node is added when no node is a coordinator
AppendCoordinator(nodes) ==
  IF \E i \in 1..Len(nodes) : nodes[i].type = "coordinator" THEN nodes
  ELSE Append(nodes, SynthesizedCoordinator)
InsertCoordinator(nodes) ==
  IF \E i \in 1..Len(nodes) : nodes[i].type = "coordinator" THEN nodes
  ELSE <<SynthesizedCoordinator>> \o nodes

\* build_topology(devices)
build_topology(items) ==
  LET collected == CollectNodes(items)
  IN  IF collected.raised THEN [raised |-> TRUE]
      ELSE LET nodes == InsertCoordinator(collected.nodes)
           IN  [ raised |-> FALSE,
                 nodes |-> nodes,
                 edges |-> collected.edges,
                 device_count |-> Len(nodes),
                 coordinator_count |-> CountType(nodes, "coordinator"),
                 router_count |-> CountType(nodes, "router"),
                 end_device_count |-> CountType(nodes, "end_device") ]

\* last messages: without fields, with a type, with a parent that is a
\* device, a parent that is no device, and an empty parent
TopologyLastMessages ==
  { EmptyDict,
    [type |-> Some("Router")],
    [type |-> Some("Coordinator")],
    [type |-> Some("EndDevice"), parent_ieee |-> Some("dev1")],
    [parent_ieee |-> Some("0xffff")],
    [parent_ieee |-> Some("")] }

\* metrics: null, without fields, complete, and with a null last message
TopologyMetrics ==
  { None, Some(EmptyDict), Some([last_message |-> None]) }
  \cup { Some([ link_quality |-> Some(120), battery |-> Some(80),
                last_seen |-> Some(isoformat(0)), last_message |-> Some(m) ]) :
           m \in TopologyLastMessages }

\* device records: without fields, with metrics only, and with analytics
\* metrics that are complete, empty or null
TopologyRecords ==
  { EmptyDict }
  \cup { [metrics |-> m] : m \in TopologyMetrics }
  \cup { [ friendly_name |-> Some("Device 1"), metrics |-> Some(EmptyDict),
           analytics_metrics |-> Some(EmptyDict) ],
         [ metrics |-> Some(EmptyDict), analytics_metrics |-> None ],
         [ friendly_name |-> Some("Lamp"),
           metrics |-> Some([ link_quality |-> Some(150),
                              last_message |-> Some([type |-> Some("Router")]) ]),
           analytics_metrics |->
             Some([ health_score |-> Some(855), reconnect_rate |-> Some(0),
                    connectivity_warning |-> Some(FALSE) ]) ] }

\* the items a device dict can hold: the bridge slot and device records, one
\* of them for a device that is named "coordinator"
TopologyItems ==
  { [id |-> "bridge", data |-> [state |-> Some("online")]] }
  \cup [id : {"dev1", "dev2", "coordinator"}, data : TopologyRecords]

\* the item lists of at most MaxTopologyDevices items with distinct keys
TopologyInputs ==
  { items \in UNION { [1..n -> TopologyItems] : n \in 0..MaxTopologyDevices } :
      \A i, j \in 1..Len(items) : items[i].id = items[j].id => i = j }

\* a caller holds a device dict and has not asked yet
InitTopologySpec ==
  /\ now = 0
  /\ devices = EmptyDict
  /\ device_history = EmptyDict
  /\ update_count = EmptyDict
  /\ appended = EmptyDict
  /\ fired = 0
  /\ notified = 0
  /\ effects = [op |-> "__init__", msg |-> None, escaped |-> FALSE, steps |-> <<>>]
  /\ InitLifecycle(FALSE)
  /\ InitRecommender
  /\ InitAnalytics
  /\ topology_devices \in TopologyInputs
  /\ topology = None
  /\ InitStart
  /\ InitView

\* build_topology(devices)
BuildTopology ==
  /\ topology = None
  /\ topology' = Some(build_topology(topology_devices))
  /\ UNCHANGED <<topology_devices, storeVars, lifeVars, recVars, analyticsVars, startVars,
                 viewVars>>

NextTopology == BuildTopology

SpecTopology == InitTopologySpec /\ [][NextTopology]_vars

\* the items of the argument that are not the bridge slot, in order
NonBridgeItems == SelectSeq(topology_devices, LAMBDA item : item.id # "bridge")

\* the last message of a record whose metrics and last message are dicts
LastMessageOf(device_data) ==
  Get(Get(device_data, "metrics", Some(EmptyDict))[1],
      "last_message", Some(EmptyDict))[1]

\* C11: for every input device map the graph returned by build_topology
\* holds exactly one node of type coordinator and coordinator_count is 1.
C11_ExactlyOneCoordinator ==
  (topology # None /\ ~topology[1].raised) =>
    /\ CountType(topology[1].nodes, "coordinator") = 1
    /\ topology[1].coordinator_count = 1

\* C12: when no non-bridge device's last message has type "Coordinator" the
\* synthesized coordinator (id "coordinator", label "Coordinator", link
\* quality 255, health score 100, empty analytics) is the first node and is
\* followed by one node per non-bridge device in input order; when some
\* device is classified coordinator the nodes are exactly those of the
\* non-bridge devices; for the empty map there is 1 node, no edge and the
\* counts are device 1, coordinator 1, router 0, end_device 0.
C12_SynthesizedCoordinatorFirst ==
  (topology # None /\ ~topology[1].raised) =>
    LET result == topology[1]
        declared == \E i \in 1..Len(NonBridgeItems) :
                      Get(LastMessageOf(NonBridgeItems[i].data), "type", None)
                        = Some("Coordinator")
        offset == IF declared THEN 0 ELSE 1
    IN  /\ Len(result.nodes) = Len(NonBridgeItems) + offset
        /\ \A i \in 1..Len(NonBridgeItems) :
             /\ result.nodes[i + offset].id = NonBridgeItems[i].id
             /\ result.nodes[i + offset] =
                  DeviceNode(NonBridgeItems[i].id, NonBridgeItems[i].data).node
        /\ ~declared =>
             /\ result.nodes[1].id = "coordinator"
             /\ result.nodes[1].label = Some("Coordinator")
             /\ result.nodes[1].type = "coordinator"
             /\ result.nodes[1].link_quality = Some(255)
             /\ result.nodes[1].health_score = Some(1000)
             /\ result.nodes[1].analytics = EmptyDict
        /\ topology_devices = <<>> =>
             /\ Len(result.nodes) = 1
             /\ result.edges = <<>>
             /\ result.device_count = 1
             /\ result.coordinator_count = 1
             /\ result.router_count = 0
             /\ result.end_device_count = 0

\* two devices and the bridge slot, none a coordinator: the synthesized node
\* comes first and the devices follow in input order
C12_Witness ==
  /\ topology # None
  /\ ~topology[1].raised
  /\ Len(topology_devices) = 2
  /\ topology_devices[1].id = "dev2"
  /\ topology_devices[2].id = "dev1"
  /\ Len(topology[1].nodes) = 3
  /\ topology[1].nodes[1] = SynthesizedCoordinator
  /\ topology[1].nodes[2].id = "dev2"
  /\ topology[1].nodes[3].type = "router"

\* C13: the edges are exactly one {from: parent_ieee, to: device_id,
\* link_quality} per non-bridge device whose last message declares a
\* (non-empty) parent_ieee, in input order; an edge is there whether or not
\* its from is the id of a node, and its to is always the id of a node.
C13_OneEdgePerDeclaredParent ==
  (topology # None /\ ~topology[1].raised) =>
    LET result == topology[1]
        children == SelectSeq(NonBridgeItems,
                      LAMBDA item :
                        /\ "parent_ieee" \in DOMAIN LastMessageOf(item.data)
                        /\ LastMessageOf(item.data).parent_ieee
                             \notin {None, Some("")})
    IN  /\ Len(result.edges) = Len(children)
        /\ \A i \in 1..Len(children) :
             /\ result.edges[i].from = LastMessageOf(children[i].data).parent_ieee[1]
             /\ result.edges[i].to = children[i].id
             /\ result.edges[i].link_quality =
                  Get(Get(children[i].data, "metrics", Some(EmptyDict))[1],
                      "link_quality", Some(0))
        /\ \A i \in 1..Len(result.edges) :
             \E k \in 1..Len(result.nodes) : result.nodes[k].id = result.edges[i].to

\* two edges: one from a parent that is a node, one from a parent that is
\* not the id of any node
C13_Witness ==
  /\ topology # None
  /\ ~topology[1].raised
  /\ Len(topology[1].edges) = 2
  /\ \E i \in 1..2 :
       \E k \in 1..Len(topology[1].nodes) :
         topology[1].nodes[k].id = topology[1].edges[i].from
  /\ \E i \in 1..2 :
       \A k \in 1..Len(topology[1].nodes) :
         topology[1].nodes[k].id # topology[1].edges[i].from

\* C14: build_topology never raises on a malformed device record: when
\* metrics, analytics_metrics or last_message is absent, null or lacks
\* fields, a graph is returned in which the missing node fields
\* (link_quality, battery, last_seen, health_score) are null.
C14_MalformedNeverRaises ==
  topology # None =>
    /\ ~topology[1].raised
    /\ \A i \in 1..Len(NonBridgeItems) :
         \E k \in 1..Len(topology[1].nodes) :
           LET node == topology[1].nodes[k]
               data == NonBridgeItems[i].data
               metrics == Get(data, "metrics", None)
               analytics == Get(data, "analytics_metrics", None)
               Missing(d, key) == d = None \/ Get(d[1], key, None) = None
           IN  /\ node.id = NonBridgeItems[i].id
               /\ Missing(metrics, "link_quality") => node.link_quality = None
               /\ Missing(metrics, "battery") => node.battery = None
               /\ Missing(metrics, "last_seen") => node.last_seen = None
               /\ Missing(analytics, "health_score") => node.health_score = None

(***************************************************************************)
(* Analytics engine called with histories of its own (analytics.py): the  *)
(* histories hold entries out of order, outside the window and with        *)
(* malformed timestamps, which the store never writes.  The same caller    *)
(* calls calculate_overlap_factor of recommender.py.                       *)
(***************************************************************************)
MaxRateHistory == 3
MaxBatteryHistory == 3

\* datetime.now() of the calls; every timestamp of a history lies before it
AnalyticsNow == 2000000

\* a timestamp that is the empty string, and one that is no ISO-8601 text
EmptyTimestamp == [kind |-> "empty"]
InvalidTimestamp == [kind |-> "invalid"]

\* the timestamp written `ago` seconds before the call
Ago(ago) == isoformat(AnalyticsNow - ago)

\* seconds before the call: outside a 24 h window, on its edge, on the edge
\* of a 1 h window, 300 s and 301 s after that, and at the call
RateAges == {90000, 86400, 3600, 3300, 3299, 0}

\* entries for compute_reconnect_rate: valid timestamps, and a timestamp that
\* is missing, null, empty or unparseable
RateEntries ==
  { [timestamp |-> Ago(a)] : a \in RateAges }
  \cup { EmptyDict, [timestamp |-> NullTimestamp], [timestamp |-> EmptyTimestamp],
         [timestamp |-> InvalidTimestamp] }

RateHistories == UNION { [1..n -> RateEntries] : n \in 0..MaxRateHistory }

\* seconds before the call: 300 h, 1 h, and at the call (2 h for one entry)
BatteryAges == {1080000, 3600, 0}

\* entries for compute_battery_trend: readings above and below the floor of
\* 20, an entry without a reading and one with an unparseable timestamp
BatteryEntries ==
  { [timestamp |-> Ago(a), metrics |-> [battery |-> Some(b)]] :
      a \in BatteryAges, b \in {100, 90, 89, 15} }
  \cup { [timestamp |-> Ago(7200), metrics |-> [battery_percent |-> Some(100)]],
         [timestamp |-> Ago(0), metrics |-> EmptyDict],
         [timestamp |-> InvalidTimestamp, metrics |-> [battery |-> Some(90)]] }

BatteryHistories == UNION { [1..n -> BatteryEntries] : n \in 0..MaxBatteryHistory }

\* metrics.last_seen for check_connectivity_warning: 100 s, exactly 3600 s
\* and 3601 s old, null, empty and unparseable
LastSeenValues ==
  { Ago(100), Ago(3600), Ago(3601), NullTimestamp, EmptyTimestamp, InvalidTimestamp }

\* device_data for check_connectivity_warning: with and without last_seen,
\* with histories of up to two gaps
ConnectivityDevices ==
  { EmptyDict }
  \cup { [metrics |-> m, history |-> h] :
           m \in {EmptyDict} \cup { [last_seen |-> v] : v \in LastSeenValues },
           h \in UNION { [1..n -> { [timestamp |-> Ago(a)] : a \in {3600, 3299, 0} }
                                   \cup { [timestamp |-> NullTimestamp] }] :
                           n \in 0..MaxRateHistory } }

\* device_data for compute_health_score: link_quality absent, null, negative,
\* inside 0..255 and above 255
LinkQualityValues == { None } \cup { Some(v) : v \in {-255, -1, 0, 127, 255, 300} }

HealthDevices ==
  { EmptyDict }
  \cup { [metrics |-> m] :
           m \in [battery : {Some(100), Some(50)}, last_seen : {Ago(0), Ago(1950)}]
                 \cup [link_quality : LinkQualityValues, battery : {None, Some(100)},
                       last_seen : {Ago(0), Ago(1950)}] }

\* the arguments of calculate_overlap_factor (recommender.py): channels
\* inside and just outside both tables, signal strengths below, inside and
\* above the normalised range -90..-30 dBm
OverlapCalls ==
  [fn : {"calculate_overlap_factor"}, wifi_channel : 0..15,
   zigbee_channel : 10..27, rssi : {-100, -90, -89, -50, -30, -20}]

\* the calls: the method and its arguments; window_hours of
\* check_connectivity_warning is the reconnect_rate_window_hours of __init__
AnalyticsCalls ==
  [fn : {"compute_reconnect_rate"}, history : RateHistories,
   window_hours : {24, 1, 0, -1}]
  \cup [fn : {"compute_battery_trend"}, history : BatteryHistories,
        window_hours : {24, 400}]
  \cup [fn : {"check_battery_drain_warning"}, history : BatteryHistories,
        threshold : {DEFAULT_BATTERY_DRAIN_THRESHOLD}]
  \cup [fn : {"check_connectivity_warning"}, device_data : ConnectivityDevices,
        window_hours : {DEFAULT_RECONNECT_RATE_WINDOW_HOURS, 1},
        threshold : {DEFAULT_RECONNECT_RATE_THRESHOLD, 2}]
  \cup [fn : {"compute_health_score"}, device_data : HealthDevices,
        history : { h \in RateHistories : ~SortRaises(h) /\ Len(h) <= 2 },
        window_hours : {DEFAULT_RECONNECT_RATE_WINDOW_HOURS}]
  \cup OverlapCalls

\* a caller holds the arguments of one call and has not made it yet
InitAnalyticsSpec ==
  /\ now = AnalyticsNow
  /\ devices = EmptyDict
  /\ device_history = EmptyDict
  /\ update_count = EmptyDict
  /\ appended = EmptyDict
  /\ fired = 0
  /\ notified = 0
  /\ effects = [op |-> "__init__", msg |-> None, escaped |-> FALSE, steps |-> <<>>]
  /\ InitLifecycle(FALSE)
  /\ InitRecommender
  /\ InitTopology
  /\ analytics_call \in AnalyticsCalls
  /\ analytics_result = None
  /\ InitStart
  /\ InitView

\* the call is made and its result kept
Returns(fn, result) ==
  /\ analytics_call.fn = fn
  /\ analytics_result = None
  /\ analytics_result' = Some(result)
  /\ UNCHANGED <<analytics_call, storeVars, lifeVars, recVars, topoVars, startVars,
                 viewVars>>

ComputeReconnectRate ==
  Returns("compute_reconnect_rate",
          compute_reconnect_rate(analytics_call.history,
                                 analytics_call.window_hours, now))

ComputeBatteryTrend ==
  Returns("compute_battery_trend",
          compute_battery_trend(analytics_call.history,
                                analytics_call.window_hours, now))

CheckBatteryDrainWarning ==
  Returns("check_battery_drain_warning",
          check_battery_drain_warning(analytics_call.history,
                                      analytics_call.threshold, now))

CheckConnectivityWarning ==
  Returns("check_connectivity_warning",
          check_connectivity_warning(analytics_call.device_data,
                                     analytics_call.window_hours,
                                     analytics_call.threshold, now))

ComputeHealthScore ==
  Returns("compute_health_score",
          compute_health_score(analytics_call.device_data, analytics_call.history,
                               analytics_call.window_hours, now))

CalculateOverlapFactor ==
  Returns("calculate_overlap_factor",
          calculate_overlap_factor(analytics_call.wifi_channel,
                                   analytics_call.zigbee_channel,
                                   analytics_call.rssi))

NextAnalytics ==
  \/ ComputeReconnectRate
  \/ ComputeBatteryTrend
  \/ CheckBatteryDrainWarning
  \/ CheckConnectivityWarning
  \/ ComputeHealthScore
  \/ CalculateOverlapFactor

SpecAnalytics == InitAnalyticsSpec /\ [][NextAnalytics]_vars

\* the call of fn has returned or raised
Called(fn) == analytics_call.fn = fn /\ analytics_result # None

\* the instants of the entries of a history whose timestamp is ISO-8601 text
\* and not before window_start
ValidInstants(history, window_start) ==
  { history[i].timestamp.t :
      i \in { j \in 1..Len(history) :
                /\ "timestamp" \in DOMAIN history[j]
                /\ history[j].timestamp.kind = "iso"
                /\ history[j].timestamp.t >= window_start } }

\* the pairs of instants adjacent in time order that are more than 300 s apart
GapsOver300(instants) ==
  Cardinality({ a \in instants :
                  \E b \in instants :
                    /\ b - a > 300
                    /\ \A c \in instants : ~(a < c /\ c < b) })

MalformedTimestamp(entry) ==
  \/ "timestamp" \notin DOMAIN entry
  \/ entry.timestamp.kind # "iso"

\* C16: for every history in which some entries have a missing, null, empty
\* or unparseable timestamp, compute_reconnect_rate returns without raising
\* and its result equals the result for the history without those entries.
C16_MalformedTimestampsSkipped ==
  Called("compute_reconnect_rate") =>
    LET cleaned == SelectSeq(analytics_call.history,
                             LAMBDA entry : ~MalformedTimestamp(entry))
        expected == compute_reconnect_rate(cleaned, analytics_call.window_hours, now)
    IN  /\ ~analytics_result[1].raised
        /\ analytics_result[1].num * expected.den
             = expected.num * analytics_result[1].den

\* every entry of the history is a reading inside the window and at or
\* above the trend floor, there are at least two, and their times differ
ReadingsOnly(history, window_hours) ==
  /\ Len(history) >= 2
  /\ \A i \in 1..Len(history) :
       /\ ~MalformedTimestamp(history[i])
       /\ history[i].timestamp.t >= now - window_hours * SECONDS_PER_HOUR
       /\ "metrics" \in DOMAIN history[i]
       /\ "battery" \in DOMAIN history[i].metrics
       /\ history[i].metrics.battery # None
       /\ history[i].metrics.battery[1] >= DEFAULT_MIN_BATTERY_FOR_TREND
  /\ \A i, j \in 1..Len(history) :
       history[i].timestamp.t = history[j].timestamp.t => i = j

\* the battery value strictly decreases, or strictly increases, over time
StrictlyDecreasing(history) ==
  \A i, j \in 1..Len(history) :
    history[i].timestamp.t < history[j].timestamp.t =>
      history[i].metrics.battery[1] > history[j].metrics.battery[1]

StrictlyIncreasing(history) ==
  \A i, j \in 1..Len(history) :
    history[i].timestamp.t < history[j].timestamp.t =>
      history[i].metrics.battery[1] < history[j].metrics.battery[1]

\* the fitted slope, before rounding, is more than 0.005 % per hour away
\* from 0
SlopeBeyondRounding(history, window_hours) ==
  LET sums == BatteryTrendSums(history, window_hours, now)
      numerator == 200 * sums.per_hour * SlopeNumerator(sums)
  IN  Abs(numerator) > SlopeDenominator(sums)

\* C17 as stated: for every history of at least two in-window readings at
\* or above the floor and at distinct times, a strictly decreasing battery
\* value gives a trend < 0 and a strictly increasing one a trend > 0.
C17_TrendSignStrict ==
  (Called("compute_battery_trend")
     /\ ReadingsOnly(analytics_call.history, analytics_call.window_hours)) =>
    /\ StrictlyDecreasing(analytics_call.history) =>
         analytics_result[1] # None /\ analytics_result[1][1] < 0
    /\ StrictlyIncreasing(analytics_call.history) =>
         analytics_result[1] # None /\ analytics_result[1][1] > 0

\* C17 as amended: for such a history a strictly decreasing battery value
\* gives a trend <= 0 and a strictly increasing one a trend >= 0; the trend
\* is the slope rounded to two decimals, so it is < 0 (> 0) whenever the
\* slope is more than 0.005 % per hour away from 0, and 0.0 for a slope
\* closer to 0 than that.
C17_TrendSignAfterRounding ==
  (Called("compute_battery_trend")
     /\ ReadingsOnly(analytics_call.history, analytics_call.window_hours)) =>
    LET history == analytics_call.history
        beyond == SlopeBeyondRounding(history, analytics_call.window_hours)
    IN  /\ StrictlyDecreasing(history) =>
             /\ analytics_result[1] # None
             /\ analytics_result[1][1] <= 0
             /\ beyond => analytics_result[1][1] < 0
        /\ StrictlyIncreasing(history) =>
             /\ analytics_result[1] # None
             /\ analytics_result[1][1] >= 0
             /\ beyond => analytics_result[1][1] > 0

\* three readings out of time order whose battery value falls from 100 to 90
\* to 89 within 300 hours: a negative trend
C17_Witness ==
  /\ Called("compute_battery_trend")
  /\ Len(analytics_call.history) = 3
  /\ ReadingsOnly(analytics_call.history, analytics_call.window_hours)
  /\ StrictlyDecreasing(analytics_call.history)
  /\ analytics_call.history[1].timestamp.t > analytics_call.history[2].timestamp.t
  /\ analytics_result[1] # None
  /\ analytics_result[1][1] < 0

\* the entries that qualify for the trend: in the window, with a parseable
\* timestamp and a reading at or above min_battery_for_trend
QualifyingEntries(history, window_hours) ==
  { i \in 1..Len(history) :
      /\ ~MalformedTimestamp(history[i])
      /\ history[i].timestamp.t >= now - window_hours * SECONDS_PER_HOUR
      /\ "metrics" \in DOMAIN history[i]
      /\ \E key \in {"battery", "battery_percent"} :
           /\ key \in DOMAIN history[i].metrics
           /\ history[i].metrics[key] # None
           /\ history[i].metrics[key][1] >= DEFAULT_MIN_BATTERY_FOR_TREND }

\* C18: compute_battery_trend returns null when fewer than 2 readings
\* qualify and when all qualifying readings share one timestamp; the guard
\* tested (sum of squared elapsed hours equal to 0) holds exactly when the
\* divisor of the slope, n*sum_t2 - sum_t^2, is 0, so no result is computed
\* with a divisor of 0.
C18_TrendNeverDividesByZero ==
  Called("compute_battery_trend") =>
    LET history == analytics_call.history
        qualifying == QualifyingEntries(history, analytics_call.window_hours)
        sums == BatteryTrendSums(history, analytics_call.window_hours, now)
    IN  /\ sums.n = Cardinality(qualifying)
        /\ Cardinality(qualifying) < 2 => analytics_result[1] = None
        /\ (\A i, j \in qualifying :
              history[i].timestamp.t = history[j].timestamp.t) =>
             analytics_result[1] = None
        /\ sums.n >= 2 => (sums.sum_t2 = 0 <=> SlopeDenominator(sums) = 0)
        /\ analytics_result[1] # None => SlopeDenominator(sums) # 0

\* three qualifying readings at one instant: null; the guard and the divisor
\* are both 0
C18_Witness ==
  /\ Called("compute_battery_trend")
  /\ Cardinality(QualifyingEntries(analytics_call.history,
                                   analytics_call.window_hours)) = 3
  /\ \A i \in 1..3 : analytics_call.history[i].timestamp = Ago(3600)
  /\ analytics_call.history[1].metrics # analytics_call.history[2].metrics
  /\ analytics_result[1] = None

\* C19: check_battery_drain_warning returns true if and only if the battery
\* trend (over 24 hours) is non-null and strictly less than -threshold; a
\* trend equal to -threshold gives false and a null trend gives false.
C19_DrainWarningIsStrict ==
  Called("check_battery_drain_warning") =>
    LET trend == compute_battery_trend(analytics_call.history,
                                       BATTERY_TREND_WINDOW_HOURS, now)
    IN  analytics_result[1] =
          (trend # None /\ trend[1] < -(100 * analytics_call.threshold))

\* the battery fell from 100 to 90 in one hour, a trend of exactly -10.00
\* with the threshold 10: no warning
C19_Witness ==
  /\ Called("check_battery_drain_warning")
  /\ analytics_call.threshold = 10
  /\ compute_battery_trend(analytics_call.history, BATTERY_TREND_WINDOW_HOURS, now)
       = Some(-1000)
  /\ analytics_result[1] = FALSE

ClampedLinkQualityScore(link_quality) ==
  IF link_quality = None THEN 50 * 255
  ELSE Max(0, Min(100 * 255, link_quality[1] * 100))

\* C21: the link-quality sub-score that enters the weighted sum of
\* compute_health_score is clamp(link_quality / 255 * 100, 0, 100) for every
\* numeric link_quality, negative values and values above 255 included, and
\* 50 when link_quality is missing.
C21_LinkQualityScoreClamped ==
  Called("compute_health_score") =>
    LET device_data == analytics_call.device_data
        metrics == IF "metrics" \in DOMAIN device_data THEN device_data.metrics
                   ELSE EmptyDict
        link_quality == Get(metrics, "link_quality", None)
    IN  analytics_result[1] =
          WeightedHealthScore(ClampedLinkQualityScore(link_quality), device_data,
                              analytics_call.history,
                              analytics_call.window_hours, now)

\* the distance in MHz between the centre frequencies of a Wi-Fi channel
\* 1..14 and a Zigbee channel 11..26
CentreDistance(wifi_channel, zigbee_channel) ==
  LET wifi_freq == IF wifi_channel = 14 THEN 2484 ELSE 2407 + 5 * wifi_channel
      zigbee_freq == 2405 + 5 * (zigbee_channel - 11)
  IN  Abs(wifi_freq - zigbee_freq)

\* C22: calculate_overlap_factor returns a value in [0, 100] for every
\* input, and 0 when the Wi-Fi channel is not in 1..14, when the Zigbee
\* channel is not in 11..26 and when the two centre frequencies are more
\* than 22 MHz apart.
C22_OverlapFactorRange ==
  Called("calculate_overlap_factor") =>
    LET wifi_channel == analytics_call.wifi_channel
        zigbee_channel == analytics_call.zigbee_channel
        factor == analytics_result[1]
    IN  /\ 0 <= factor /\ factor <= 100 * ScoreScale
        /\ wifi_channel \notin 1..14 => factor = 0
        /\ zigbee_channel \notin 11..26 => factor = 0
        /\ (wifi_channel \in 1..14 /\ zigbee_channel \in 11..26
              /\ CentreDistance(wifi_channel, zigbee_channel) > 22) => factor = 0

\* Wi-Fi 1 and Zigbee 25 are 63 MHz apart: the factor is 0 at -50 dBm
C22_Witness ==
  /\ Called("calculate_overlap_factor")
  /\ analytics_call.wifi_channel = 1
  /\ analytics_call.zigbee_channel = 25
  /\ analytics_call.rssi = -50
  /\ analytics_result[1] = 0

\* C23: for a device updated only through _process_device_update, while its
\* history has not been truncated and all its entries lie inside the
\* reconnect-rate window, the number of reconnect events counted by
\* compute_reconnect_rate over the stored history (rate times window_hours)
\* equals the device's reconnect_count.
C23_RateAgreesWithReconnectCount ==
  \A id \in DOMAIN device_history :
    LET window_start == now - DEFAULT_RECONNECT_RATE_WINDOW_HOURS * SECONDS_PER_HOUR
        rate == get_device_reconnect_rate(id)
    IN  (/\ update_count[id] <= HISTORY_LIMIT
         /\ \A i \in 1..Len(device_history[id]) :
              device_history[id][i].timestamp.t >= window_start) =>
          /\ rate # None
          /\ ~rate[1].raised
          /\ rate[1].num * DEFAULT_RECONNECT_RATE_WINDOW_HOURS
               = devices[id].reconnect_count * rate[1].den

\* a device updated three times, 300 s and then 301 s apart: one reconnect
\* in the record and one in the rate
C23_Witness ==
  \E id \in DOMAIN device_history :
    /\ Len(device_history[id]) = 3
    /\ device_history[id][2].timestamp.t - device_history[id][1].timestamp.t = 300
    /\ devices[id].reconnect_count = 1
    /\ get_device_reconnect_rate(id)
         = Some([raised |-> FALSE, num |-> 1,
                 den |-> DEFAULT_RECONNECT_RATE_WINDOW_HOURS])

\* C24: a _process_device_update for device A leaves the record (with its
\* reconnect_count) and the history of every other device, and the bridge
\* slot, unchanged; _on_bridge_state leaves every non-bridge record and every
\* history unchanged.
C24_UpdateLeavesOthersUnchanged ==
  [][/\ effects'.op = "_on_device_message" =>
          LET a == TopicDeviceId(effects'.msg.topic)
          IN  /\ \A id \in DOMAIN devices :
                   a # Some(id) => id \in DOMAIN devices' /\ devices'[id] = devices[id]
              /\ \A id \in DOMAIN devices' :
                   a # Some(id) => id \in DOMAIN devices
              /\ \A id \in DOMAIN device_history :
                   a # Some(id) => /\ id \in DOMAIN device_history'
                                   /\ device_history'[id] = device_history[id]
              /\ \A id \in DOMAIN device_history' :
                   a # Some(id) => id \in DOMAIN device_history
     /\ effects'.op = "_on_bridge_state" =>
          /\ device_history' = device_history
          /\ \A id \in (DOMAIN devices \cup DOMAIN devices') \ {"bridge"} :
               /\ id \in DOMAIN devices /\ id \in DOMAIN devices'
               /\ devices'[id] = devices[id]]_vars

\* dev1 has just been updated for the second time, with a reconnect, while
\* the store holds dev2 (updated once) and the bridge state
C24_Witness ==
  /\ effects.op = "_on_device_message"
  /\ effects.msg.topic = Dev1Topic
  /\ effects.steps # <<>>
  /\ effects.steps[1].kind = "fire"
  /\ "dev1" \in DOMAIN devices
  /\ devices["dev1"].reconnect_count = 1
  /\ "dev2" \in DOMAIN devices
  /\ devices["dev2"].reconnect_count = 0
  /\ Len(device_history["dev2"]) = 1
  /\ "bridge" \in DOMAIN devices

\* C25: in every reachable state of the store each device's reconnect_count
\* is a non-negative integer, at most the number of updates of the device
\* minus 1, and last_reconnect is null exactly when it is 0; in every step
\* it does not decrease, grows by at most 1 and only for the device that is
\* updated, first_seen does not change, and no record is removed.
C25_ReconnectBookkeeping ==
  /\ [](\A id \in DOMAIN devices \ {"bridge"} :
          /\ id \in DOMAIN update_count
          /\ devices[id].reconnect_count \in Nat
          /\ devices[id].reconnect_count <= update_count[id] - 1
          /\ devices[id].last_reconnect = None <=> devices[id].reconnect_count = 0)
  /\ [][/\ DOMAIN devices \subseteq DOMAIN devices'
         /\ \A id \in DOMAIN devices \ {"bridge"} :
              LET before == devices[id].reconnect_count
                  after == devices'[id].reconnect_count
              IN  /\ devices'[id].first_seen = devices[id].first_seen
                  /\ before <= after /\ after <= before + 1
                  /\ id \notin UpdatedIds => after = before]_vars

\* a device updated three times, each more than 300 s after the last one:
\* reconnect_count 2, the largest value three updates allow
C25_Witness ==
  \E id \in DOMAIN devices \ {"bridge"} :
    /\ update_count[id] = 3
    /\ devices[id].reconnect_count = 2
    /\ devices[id].last_reconnect = Some(isoformat(now))
    /\ devices[id].first_seen = device_history[id][1].timestamp

\* C26: after every _process_device_update the device's current metrics
\* equal the metrics of the last entry of its history, last_update equals
\* metrics.last_seen and the last entry's timestamp, and every non-bridge
\* device of the device map has a non-empty history.
C26_CurrentStateIsHistoryTail ==
  \A id \in DOMAIN devices \ {"bridge"} :
    /\ id \in DOMAIN device_history
    /\ device_history[id] # <<>>
    /\ LET last == device_history[id][Len(device_history[id])]
       IN  /\ devices[id].metrics = last.metrics
           /\ devices[id].last_update = devices[id].metrics.last_seen
           /\ devices[id].last_update = last.timestamp

\* a device updated twice at different times with different payloads: the
\* record follows the second entry
C26_Witness ==
  \E id \in DOMAIN devices \ {"bridge"} :
    /\ Len(device_history[id]) = 2
    /\ device_history[id][1].timestamp # device_history[id][2].timestamp
    /\ device_history[id][1].metrics.last_message
         # device_history[id][2].metrics.last_message
    /\ devices[id].metrics = device_history[id][2].metrics

\* C27: for every configured prefix, one that contains "/" included, a
\* telemetry message published on <prefix>/<device_id> is recorded under
\* <device_id>, the topic segment that follows the configured prefix.
C27_DeviceIdFollowsPrefix ==
  [][\A id \in {"dev1", "dev2"} :
       (/\ effects' # effects
        /\ effects'.op = "_on_device_message"
        /\ effects'.msg.topic = mqtt_prefix \o <<"/", id>>
        /\ ~IsMalformed(effects'.msg)) => UpdatedIds = {id}]_vars

\* C29: the node ids of the graph returned by build_topology are pairwise
\* distinct for every input device map, also when the coordinator node is
\* synthesized with the id "coordinator".
C29_NodeIdsDistinct ==
  (topology # None /\ ~topology[1].raised) =>
    LET nodes == topology[1].nodes
    IN  \A i, j \in 1..Len(nodes) : nodes[i].id = nodes[j].id => i = j

(***************************************************************************)
(* async_start, one event-loop turn at a time.  The coroutine is suspended *)
(* only inside mqtt.async_wait_for_mqtt_client and mqtt.async_subscribe;   *)
(* _start_direct_mqtt and the direct branch of _subscribe_mqtt run to the  *)
(* end without giving up the event loop, and the client task that          *)
(* asyncio.create_task made runs in a later turn.                          *)
(***************************************************************************)
\* bridge_topic and devices_topic of async_start
BridgeTopicOfStart == mqtt_prefix \o <<"/", "bridge", "/", "state">>

DevicesTopicOfStart == mqtt_prefix \o <<"/", "#">>

\* the _subscribe_mqtt call that is suspended: its topic and its callback
PendingTopic ==
  IF start_pc \in {"wait_client_bridge", "subscribe_bridge"}
  THEN BridgeTopicOfStart ELSE DevicesTopicOfStart

PendingCallback ==
  IF start_pc \in {"wait_client_bridge", "subscribe_bridge"}
  THEN "_on_bridge_state" ELSE "_on_device_message"

\* async_start returns or raises with the lifecycle fields st
FinishStart(st) ==
  /\ SetLifeState(st)
  /\ start_pc' = IF st.raised THEN "raised" ELSE "done"
  /\ lifecycle' = IF st.raised THEN "start_failed" ELSE "started"

\* async_start is suspended at the position pc with the lifecycle fields st
SuspendStart(st, pc) ==
  /\ SetLifeState(st)
  /\ start_pc' = pc
  /\ lifecycle' = lifecycle

\* the host calls async_start(): with a configured broker it runs to its end
\* in this turn, otherwise it runs up to the first
\* await mqtt.async_wait_for_mqtt_client
StartBegins ==
  \E aiomqtt \in BOOLEAN :
    /\ start_pc = "idle"
    /\ lifecycle = "constructed"
    /\ IF use_direct_mqtt
       THEN LET env == [ha |-> FALSE, fails |-> FALSE, aiomqtt |-> aiomqtt]
            IN  FinishStart(AsyncStart(LifeState, env, env))
       ELSE SuspendStart(LifeState, "wait_client_bridge")
    /\ UNCHANGED <<shutdowns, first_subscribed, storeVars, recVars, topoVars,
                   analyticsVars, viewVars>>

\* mqtt.async_wait_for_mqtt_client returns ha.  With a client the coroutine
\* goes on to await mqtt.async_subscribe; without one it falls back, and
\* everything that follows in async_start runs in the same turn
HostClientAnswers ==
  \E ha, aiomqtt \in BOOLEAN :
    /\ start_pc \in {"wait_client_bridge", "wait_client_devices"}
    /\ IF ha
       THEN SuspendStart(LifeState, IF start_pc = "wait_client_bridge"
                                    THEN "subscribe_bridge" ELSE "subscribe_devices")
       ELSE LET env == [ha |-> FALSE, fails |-> FALSE, aiomqtt |-> aiomqtt]
                st1 == SubscribeMqtt(LifeState, PendingTopic, PendingCallback, env)
            IN  FinishStart(IF start_pc = "wait_client_bridge"
                            THEN SubscribeMqtt(st1, DevicesTopicOfStart,
                                               "_on_device_message", env)
                            ELSE st1)
    /\ UNCHANGED <<shutdowns, first_subscribed, storeVars, recVars, topoVars,
                   analyticsVars, viewVars>>

\* mqtt.async_subscribe returns a handle or raises
HostSubscribes ==
  \E fails \in BOOLEAN :
    LET env == [ha |-> TRUE, fails |-> fails, aiomqtt |-> TRUE]
        st == SubscribeMqtt(LifeState, PendingTopic, PendingCallback, env)
    IN  /\ start_pc \in {"subscribe_bridge", "subscribe_devices"}
        /\ IF ~st.raised /\ start_pc = "subscribe_bridge"
           THEN SuspendStart(st, "wait_client_devices")
           ELSE FinishStart(st)
        /\ UNCHANGED <<shutdowns, first_subscribed, storeVars, recVars, topoVars,
                       analyticsVars, viewVars>>

\* mqtt_client_task connects to the broker for the first time and subscribes
\* to every topic of _mqtt_callbacks
ClientConnects ==
  /\ mqtt_client_task # None
  /\ task_state[mqtt_client_task[1]] = "running"
  /\ first_subscribed = None
  /\ first_subscribed' = Some(DOMAIN mqtt_callbacks)
  /\ UNCHANGED <<start_pc, storeVars, lifeVars, recVars, topoVars, analyticsVars,
                 viewVars>>

\* the broker sends a message of a subscribed topic and the client task
\* calls the _on_device_message callbacks of the matching patterns
ClientDispatches ==
  \E msg \in DeviceMessages :
    /\ first_subscribed # None
    /\ \E pattern \in first_subscribed[1] : TopicMatches(msg.topic, pattern)
    /\ \E pattern \in DOMAIN mqtt_callbacks :
         /\ TopicMatches(msg.topic, pattern)
         /\ \E i \in 1..Len(mqtt_callbacks[pattern]) :
              mqtt_callbacks[pattern][i] = "_on_device_message"
    /\ TotalUpdates < MaxLifecycleUpdates
    /\ HandleDeviceMessage(msg)

\* the host's MQTT integration calls _on_device_message through a handle
HostDispatches ==
  \E msg \in DeviceMessages :
    /\ \E i \in 1..Len(unsub_mqtt) :
         /\ unsub_mqtt[i].callback = "_on_device_message"
         /\ TopicMatches(msg.topic, unsub_mqtt[i].topic)
    /\ TotalUpdates < MaxLifecycleUpdates
    /\ HandleDeviceMessage(msg)

NextStartSteps ==
  \/ StartBegins
  \/ HostClientAnswers
  \/ HostSubscribes
  \/ ClientConnects
  \/ ClientDispatches
  \/ HostDispatches

SpecStartSteps == InitLifecycleSpec /\ [][NextStartSteps]_vars

\* C28: in direct-MQTT mode, configured or entered by fallback, async_start
\* has registered the bridge-state topic and the device wildcard topic in
\* _mqtt_callbacks before the client task first iterates over it, so the
\* first broker connection subscribes to both topics, and exactly one client
\* task is created.
C28_BothTopicsBeforeFirstConnection ==
  /\ (start_pc = "done" /\ use_direct_mqtt) =>
       /\ {BridgeTopicOfStart, DevicesTopicOfStart} \subseteq DOMAIN mqtt_callbacks
       /\ Cardinality(DOMAIN task_state) = 1
  /\ first_subscribed # None =>
       first_subscribed[1] = {BridgeTopicOfStart, DevicesTopicOfStart}

(***************************************************************************)
(* The channel recommendation view (api.py) and the recommend_channel      *)
(* service (__init__.py): what they keep in hass.data[DOMAIN]              *)
(***************************************************************************)
\* the number of history entries the view keeps: [-10:]
RECOMMENDATION_HISTORY_LIMIT == 10

\* POST requests that store a result, at most
MaxPosts == 11

\* request bodies: manual scan data with no and with one access point, a
\* body without wifi_scan_data, and an unknown mode
ScanRequests ==
  { [mode |-> "manual", wifi_scan_data |-> Some(<<>>)],
    [mode |-> "manual",
     wifi_scan_data |-> Some(<<[channel |-> Some(1), rssi |-> Some(-30)]>>)],
    [mode |-> "manual", wifi_scan_data |-> None],
    [mode |-> "bogus", wifi_scan_data |-> None] }

\* create_scanner(mode, scan_data) and scanner.scan(): the access points of
\* the manual scanner, or the ValueError of create_scanner
ScanOutcome(request) ==
  IF request.mode = "manual" /\ request.wifi_scan_data # None
  THEN [raised |-> FALSE, wifi_aps |-> request.wifi_scan_data[1]]
  ELSE [raised |-> TRUE]

\* {**result, "timestamp": ..., "wifi_aps_count": ...}
HistoryEntry(result, aps, t) ==
  [ recommended_channel |-> result.recommended_channel,
    scores |-> result.scores,
    explanation |-> result.explanation,
    timestamp |-> isoformat(t),
    wifi_aps_count |-> Len(aps) ]

\* variant: the first entries are kept, list[:10]
StoreRecommendationKeepsOldest(history, result, aps, t) ==
  LET entries == Append(IF history = None THEN <<>> ELSE history[1],
                        HistoryEntry(result, aps, t))
  IN  SubSeq(entries, 1, Min(Len(entries), RECOMMENDATION_HISTORY_LIMIT))

\* the history after the view has appended the entry of result and cut the
\* list to its last entries
StoreRecommendation(history, result, aps, t) ==
  LastN(Append(IF history = None THEN <<>> ELSE history[1],
               HistoryEntry(result, aps, t)),
        RECOMMENDATION_HISTORY_LIMIT)

\* ZigSightChannelRecommendationView.post: a failure answers 500 and stores
\* nothing
PostRecommendation ==
  \E request \in ScanRequests :
    LET scan == ScanOutcome(request)
    IN  /\ Len(posted) < MaxPosts
        /\ IF scan.raised
           THEN /\ view_response' = 500
                /\ UNCHANGED <<last_recommendation, recommendation_history, posted>>
           ELSE LET result == recommend_zigbee_channel(scan.wifi_aps)
                IN  /\ last_recommendation' = Some(result)
                    /\ recommendation_history' =
                         Some(StoreRecommendation(recommendation_history, result,
                                                  scan.wifi_aps, now))
                    /\ posted' = Append(posted, result)
                    /\ view_response' = 200
        /\ UNCHANGED <<service_called, storeVars, lifeVars, recVars, topoVars,
                       analyticsVars, startVars>>

\* the service recommend_channel: it stores the result as last_recommendation
\* and leaves the history alone; a failure is raised to the caller
ServiceRecommendChannel ==
  \E request \in ScanRequests :
    LET scan == ScanOutcome(request)
    IN  /\ IF scan.raised
           THEN UNCHANGED <<last_recommendation, service_called>>
           ELSE /\ last_recommendation' =
                     Some(recommend_zigbee_channel(scan.wifi_aps))
                /\ service_called' = TRUE
        /\ UNCHANGED <<recommendation_history, posted, view_response, storeVars,
                       lifeVars, recVars, topoVars, analyticsVars, startVars>>

NextRecommendationView == PostRecommendation \/ ServiceRecommendChannel

SpecRecommendationView == Init /\ [][NextRecommendationView]_vars

\* the result a history entry was made of
HistoryResult(entry) ==
  [ recommended_channel |-> entry.recommended_channel,
    scores |-> entry.scores,
    explanation |-> entry.explanation ]

\* C30: after any sequence of POST requests to the recommendation view,
\* recommendation_history holds at most 10 entries, they are the results of
\* the most recent requests that produced one, in request order, and
\* last_recommendation is the result of the newest history entry.
C30_HistoryIsLastTenPosts ==
  ~service_called =>
    IF posted = <<>>
    THEN recommendation_history = None /\ last_recommendation = None
    ELSE /\ recommendation_history # None
         /\ LET h == recommendation_history[1]
            IN  /\ Len(h) = Min(Len(posted), 10)
                /\ \A i \in 1..Len(h) :
                     HistoryResult(h[i]) = posted[Len(posted) - Len(h) + i]
                /\ last_recommendation = Some(HistoryResult(h[Len(h)]))

\* more than ten requests have stored a result, the oldest result differs
\* from the one after it and is gone from the history
C30_Witness ==
  /\ ~service_called
  /\ Len(posted) > 10
  /\ posted[1] # posted[2]
  /\ recommendation_history # None
  /\ Len(recommendation_history[1]) = 10
  /\ HistoryResult(recommendation_history[1][1]) = posted[Len(posted) - 9]
  /\ view_response = 200

====
